---- MODULE Spec2Model ----
(***************************************************************************)
(* The progression reconciliation engine of the Pokepelago client          *)
(* (src/src/context/GameContext.tsx): the connection state machine, the    *)
(* checked / unlocked stores, the Oak's Lab auto-check, the milestone      *)
(* deriver and the eligibility evaluator, together with the Archipelago    *)
(* server they talk to.                                                    *)
(*                                                                         *)
(* React is modelled as it schedules the code: an event handler runs to    *)
(* completion and its state updates are committed together; the passive    *)
(* effects of the commit (RunEffects) are flushed before the next event is *)
(* handled, in declaration order, all reading the state of that commit;    *)
(* the updates they queue are committed together and trigger the effects   *)
(* again.                                                                  *)
(***************************************************************************)
EXTENDS Integers, FiniteSets, Sequences, TLC

-----------------------------------------------------------------------------
(* Bounds of the model *)

\* clients (new Client()) created in one behaviour
MaxClients == 2
\* creature ids a player guesses in one behaviour: the GuessWindow ids that
\* follow the ones the server already holds
GuessWindow == 2
\* the creatures of the slot's world are 1 .. WorldSize
WorldSize == 16
\* Master Ball items the server sends to the slot at most
MaxBalls == 2
\* changes of game mode the player makes in one behaviour at most
MaxModeSwitches == 1
\* calls of runAutoComplete in one behaviour at most
MaxLoops == 2
\* Derpy Mon Trap items the server sends to the slot at most
MaxTraps == 2
\* Release Trap items the server sends to the slot at most
MaxReleaseTraps == 1

\* number of creature locations the server may hold as checked when the
\* behaviour starts (checked in an earlier session or by another client of
\* the slot, as src/test_run.js does)
SeedSizes == {12}

-----------------------------------------------------------------------------
(* Identifier space: the two Offset Tables *)

ITEM_OFFSET == 8574000
NEW_BAND_LOW == 8560000
NEW_BAND_HIGH == 8570000
LOCATION_RANGE == 200000
STARTER_COUNT == 20
MAX_DEX == 1025
STARTER_BASELINE == 3
SHINY_UPGRADE == 105000
SCOUT_BASE == 8571000

LegacyOffsets ==
    [ LOCATION_OFFSET |-> 8571000,
      STARTER_OFFSET |-> 500,
      MILESTONE_OFFSET |-> 1000,
      TYPE_MILESTONE_OFFSET |-> 2000,
      TYPE_MILESTONE_MULTIPLIER |-> 50,
      TYPE_ITEM_OFFSET |-> 1100,
      USEFUL_ITEM_OFFSET |-> 2000,
      TRAP_ITEM_OFFSET |-> 3000 ]

NewOffsets ==
    [ LOCATION_OFFSET |-> 8560000,
      STARTER_OFFSET |-> 100000,
      MILESTONE_OFFSET |-> 10000,
      TYPE_MILESTONE_OFFSET |-> 20000,
      TYPE_MILESTONE_MULTIPLIER |-> 1000,
      TYPE_ITEM_OFFSET |-> 2000,
      USEFUL_ITEM_OFFSET |-> 3000,
      TRAP_ITEM_OFFSET |-> 4000 ]

OffsetTables == {LegacyOffsets, NewOffsets}

typesList ==
    << "Normal", "Fire", "Water", "Grass", "Electric", "Ice", "Fighting",
       "Poison", "Ground", "Flying", "Psychic", "Bug", "Rock", "Ghost",
       "Dragon", "Fairy", "Steel", "Dark" >>

TypeNames == { typesList[i] : i \in 1..Len(typesList) }

typeSteps == {1, 2, 5, 10, 15, 20, 30, 40, 50}

\* [1, 5, 10, 20, 30, ..., 380, 148, 248, 383], duplicates dropped; the
\* code sorts the list, and the order of the check requests of one scan is
\* not observed here
globalMilestones ==
    {1, 5, 10} \cup { (i + 2) * 10 : i \in 0..36 } \cup {148, 248, 383}

starterTypeCounts(typeName) ==
    IF typeName \in {"Grass", "Poison", "Fire", "Water"} THEN 1 ELSE 0

StarterIds(o) == { o.STARTER_OFFSET + i : i \in 0..(STARTER_COUNT - 1) }

GlobalMilestoneId(o, count) == (o.LOCATION_OFFSET + o.MILESTONE_OFFSET + count) - o.LOCATION_OFFSET

\* index is the 0-based position in typesList
TypeMilestoneId(o, index, step) ==
    (o.LOCATION_OFFSET + o.TYPE_MILESTONE_OFFSET + (index * o.TYPE_MILESTONE_MULTIPLIER) + step)
        - o.LOCATION_OFFSET

GlobalMilestoneIds(o) == { GlobalMilestoneId(o, c) : c \in globalMilestones }

TypeMilestoneIds(o) ==
    { TypeMilestoneId(o, i - 1, s) : i \in 1..Len(typesList), s \in typeSteps }

-----------------------------------------------------------------------------
(* Static metadata store: the types of creatures 1 .. 15 and 152, lower    *)
(* case as in the data file; creatures 16 and 153 stand for ids the file   *)
(* has no entry for                                                        *)

pokemonMetadata ==
    [ id \in (1..15) \cup {152} |->
        CASE id \in 1..3 -> <<"grass", "poison">>
          [] id = 152 -> <<"grass">>
          [] id \in 4..5 -> <<"fire">>
          [] id = 6 -> <<"fire", "flying">>
          [] id \in 7..9 -> <<"water">>
          [] id \in 10..11 -> <<"bug">>
          [] id = 12 -> <<"bug", "flying">>
          [] OTHER -> <<"bug", "poison">> ]

HasMetadata(id) == id \in DOMAIN pokemonMetadata

\* t.charAt(0).toUpperCase() + t.slice(1)
Capitalize(t) ==
    CASE t = "normal" -> "Normal" [] t = "fire" -> "Fire" [] t = "water" -> "Water"
      [] t = "grass" -> "Grass" [] t = "electric" -> "Electric" [] t = "ice" -> "Ice"
      [] t = "fighting" -> "Fighting" [] t = "poison" -> "Poison"
      [] t = "ground" -> "Ground" [] t = "flying" -> "Flying"
      [] t = "psychic" -> "Psychic" [] t = "bug" -> "Bug" [] t = "rock" -> "Rock"
      [] t = "ghost" -> "Ghost" [] t = "dragon" -> "Dragon" [] t = "fairy" -> "Fairy"
      [] t = "steel" -> "Steel" [] t = "dark" -> "Dark"
      [] OTHER -> t

\* GENERATIONS.findIndex(g => id >= g.startId && id <= g.endId), -1 if none
GenerationIndex(id) ==
    CASE id >= 1 /\ id <= 151 -> 0
      [] id >= 152 /\ id <= 251 -> 1
      [] id >= 252 /\ id <= 386 -> 2
      [] id >= 387 /\ id <= 493 -> 3
      [] id >= 494 /\ id <= 649 -> 4
      [] id >= 650 /\ id <= 721 -> 5
      [] id >= 722 /\ id <= 809 -> 6
      [] id >= 810 /\ id <= 905 -> 7
      [] id >= 906 /\ id <= 1025 -> 8
      [] OTHER -> -1

-----------------------------------------------------------------------------
(* State *)

VARIABLES
    \* the Archipelago server and the slot's world
    serverVersion,      \* "legacy" or "new": the apworld the server runs
    slotData,           \* slot_data of the Connected packet
    seed,               \* creature locations 1 .. seed were checked before
    serverChecked,      \* network location ids the server has recorded
    serverItems,        \* network item ids the server has sent to the slot
    receivedOrder,      \* the creatures of those items, in the order sent
    \* module-level state and refs of GameContext.tsx
    offsets,            \* the active Offset Table (the module-level lets)
    clientRef,          \* clientRef.current: a client, or 0 for null
    isConnectingRef,    \* isConnectingRef.current
    clients,            \* every Client created: its socket / login status
    attempt,            \* the connect() call in flight, if any
    connectionError,    \* connectionError: "" for null, else the message shown
    \* React state
    gameMode,
    checkedIds,
    unlockedIds,
    unlockedOrder,      \* Array.from(unlockedIds): the insertion order of the Set
    hintedIds,
    shinyIds,
    typeUnlocks,
    typeLocksEnabled,
    generationFilter,
    isConnected,
    dirty,              \* a commit whose effects have not been flushed yet
    releasedIds,
    derpyfiedIds,
    staleClients,       \* the clients whose handlers the first render's connect() registered
    releaseTraps,       \* server: Release Trap items sent to the slot
    derpTraps,          \* server: Derpy Mon Trap items sent to the slot
    storedReleased,     \* server: the data storage list under the released key
    storedDerpyfied,    \* server: the data storage list under the derpyfied key
    trapNotify,         \* storage keys whose value has still to reach the callback
    releasedByTrap,     \* history: ids the Release Trap processing has added
    lastUpload,         \* history: the ids the last trap processing added to
                        \* the derpyfied and the released storage keys
    masterBalls,        \* the Master Balls available
    usedMasterBalls,    \* the creatures a Master Ball was used on
    \* the server's side of the consumables
    ballsReceived,      \* Master Ball items in client.items.received
    ledger,             \* data storage: the slot's used_masterballs key
    notifyPending,      \* a SetReply of that key is on its way to the client
    \* history (not read by the program)
    snapshotIds,        \* local ids decoded from the last snapshot
    sentOnce,           \* locations the effects passed to Client.check
    sentTwice,          \* locations the effects passed to it at least twice
    unsent,             \* ids given to checkPokemon while unauthenticated
                        \* whose location has not been sent since
    checkedChanged,     \* checkedIds changed since the last milestone scan
    inputsChanged,      \* an input of the scan changed since the last scan
    lastSent,           \* the requests the last handler passed to the transport
    reapplied,          \* the mutation the last handler applied although it
                        \* was applied already: "unlock", "check", "grant",
                        \* "hint", or "" for none
    \* the browser's storage and what the construction of the provider read
    localStorage,       \* the text stored under each persisted key
    startup,            \* "loading", "mounted", or "failed": an initialiser threw
    usedPokegears,
    usedPokedexes,
    connectionInfo,     \* the value the connection form starts from
    uiSettings,
    packageCache,       \* "unread", "imported" or "ignored": the cached DataPackage
    modeSwitches,       \* history: the changes of game mode made so far
    \* the liveness probe
    connectionQuality,  \* "good", "degraded", "dead", or "none" for null
    pingLatency,        \* "none" for null, else "measured"
    pingTimeoutRef,     \* pingTimeoutRef.current: the client whose login set
                        \* the interval, or 0 for null
    intervals,          \* the intervals that are running, by that client
    bounces,            \* the clients with a ping Bounce sent and not answered
    \* the debug auto-complete of GlobalGuessInput
    isAutoCompleting,   \* window.isAutoCompleting
    loops,              \* every call of runAutoComplete: where it is waiting
    goalCount           \* goalCount: NoGoal for undefined

\* what the construction of the provider reads and sets; no handler of the
\* session model changes it
bootVars ==
    << localStorage, startup, usedPokegears, usedPokedexes, connectionInfo, uiSettings,
       packageCache >>
\* the world of the slot and the page's start: constant while a session runs
envVars == << serverVersion, slotData, seed, bootVars, modeSwitches >>
serverVars == << serverChecked, serverItems, receivedOrder >>
connVars == << clientRef, isConnectingRef, clients, attempt, connectionError >>
storeVars == << checkedIds, unlockedIds, unlockedOrder, typeUnlocks, typeLocksEnabled, generationFilter >>
itemVars == << masterBalls, usedMasterBalls, ballsReceived, ledger, notifyPending >>
\* the state the progression engine proper does not read
trapVars ==
    << releasedIds, derpyfiedIds, staleClients, releaseTraps, derpTraps, storedReleased,
       storedDerpyfied, trapNotify, releasedByTrap, lastUpload >>
sideVars == << itemVars, hintedIds, shinyIds, trapVars >>
histVars ==
    << snapshotIds, sentOnce, sentTwice, unsent, checkedChanged, inputsChanged,
       lastSent, reapplied >>

pingVars == << connectionQuality, pingLatency, pingTimeoutRef, intervals, bounces >>

autoVars == << isAutoCompleting, loops >>

vars ==
    << envVars, serverVars, offsets, connVars, gameMode, storeVars,
       isConnected, dirty, sideVars, histVars, pingVars, autoVars, goalCount >>

\* goalCount before a login has set it (useState(undefined))
NoGoal == -1

\* the calls of runAutoComplete in one behaviour
Loops == 1..MaxLoops

\* a call that was not made yet; pc is "unused", "typing" (the 80 ms wait
\* after setGuess), "idling" (the 200 ms wait of a pass without a guess) or
\* "done"; cursor is the creature of the for loop; stopped is history:
\* stopAutoComplete() was called while the loop was waiting
NoLoop == [ pc |-> "unused", cursor |-> 0, stopped |-> FALSE ]

\* nothing was passed to storage.prepare(key, []).add
NoUpload == [ derpyfied |-> {}, released |-> {} ]

Clients == 1..MaxClients

\* the two game modes; the null mode of the splash screen, in which no
\* guess can be made, is not modelled
GameModes == {"archipelago", "standalone"}

NoAttempt ==
    [ client |-> 0, remaining |-> 0, pendingLocationId |-> 0, pendingId |-> 0,
      protocol |-> "", untried |-> << >> ]

\* the offset table of the apworld the server runs
ServerOffsets == IF serverVersion = "new" THEN NewOffsets ELSE LegacyOffsets

\* creatures of a world with all generations that the bound WorldSize leaves
\* out: Pignite and Gholdengo, ids inside the two ranges the Goal effect
\* skips
LateCreatures == {500, 1000}

\* local ids of the locations of the slot's world, in the server's numbering
WorldLocalIds(o) ==
    (1..WorldSize)
        \cup (IF slotData.pokemon_generations = 8 THEN LateCreatures ELSE {})
        \cup StarterIds(o) \cup GlobalMilestoneIds(o) \cup TypeMilestoneIds(o)

LegacyLocations == { LegacyOffsets.LOCATION_OFFSET + l : l \in WorldLocalIds(LegacyOffsets) }

NewLocations == { NewOffsets.LOCATION_OFFSET + l : l \in WorldLocalIds(NewOffsets) }

\* missing_locations \cup checked_locations of the Connected packet
ServerLocations == IF serverVersion = "new" THEN NewLocations ELSE LegacyLocations

\* the creature ids a player guesses in this behaviour
GuessIds == (seed + 1)..(seed + GuessWindow)

\* the items the server may send in this behaviour: the grants of the
\* creatures to guess and the Bug type key (typesList index 11)
ItemPool ==
    { ITEM_OFFSET + id : id \in GuessIds }
        \cup { ITEM_OFFSET + ServerOffsets.TYPE_ITEM_OFFSET + 11 }

\* clientRef.current?.authenticated
Authenticated(c) == c # 0 /\ clients[c] = "authenticated"

-----------------------------------------------------------------------------
(* Milestone Deriver: the pure part of checkExtendedLocations *)

Max(a, b) == IF a >= b THEN a ELSE b

\* the ids the counting loop does not skip
Counted(o, id) ==
    /\ ~(id >= o.STARTER_OFFSET /\ id < o.STARTER_OFFSET + STARTER_COUNT)
    /\ ~(id >= o.MILESTONE_OFFSET /\ id < o.MILESTONE_OFFSET + 2000)
    /\ ~(id >= o.TYPE_MILESTONE_OFFSET)

TotalCatches(o, checked) == Cardinality({ id \in checked : Counted(o, id) })

\* typeCounts[typeName] || 0: one count per (creature, type entry)
TypeCount(o, checked, typeName) ==
    Cardinality({ e \in UNION { { <<id, i>> : i \in DOMAIN pokemonMetadata[id] } :
                                id \in { c \in checked : Counted(o, c) /\ HasMetadata(c) } } :
                  Capitalize(pokemonMetadata[e[1]][e[2]]) = typeName })

\* variant: the global milestones are not guarded by checkedIds.has
NewGlobalMilestonesUnguarded(o, checked) ==
    { GlobalMilestoneId(o, count) :
        count \in { c \in globalMilestones :
                      Max(0, TotalCatches(o, checked) - STARTER_BASELINE) >= c } }

\* variant: the global thresholds are compared with the raw total
NewGlobalMilestonesNoBaseline(o, checked) ==
    { GlobalMilestoneId(o, count) :
        count \in { c \in globalMilestones : TotalCatches(o, checked) >= c } } \ checked

\* local ids of the global milestones the scan emits
NewGlobalMilestones(o, checked) ==
    { GlobalMilestoneId(o, count) :
        count \in { c \in globalMilestones :
                      Max(0, TotalCatches(o, checked) - STARTER_BASELINE) >= c } } \ checked

\* variant: the type lock is not consulted
TypeSkippedNever(typeName, locksEnabled, unlocks) == FALSE

TypeSkipped(typeName, locksEnabled, unlocks) == locksEnabled /\ typeName \notin unlocks

\* local ids of the per-type milestones the scan emits
NewTypeMilestones(o, checked, locksEnabled, unlocks) ==
    UNION { LET typeName == typesList[index + 1]
                newTypeCatches ==
                    Max(0, TypeCount(o, checked, typeName) - starterTypeCounts(typeName))
            IN  IF TypeSkipped(typeName, locksEnabled, unlocks)
                THEN {}
                ELSE { TypeMilestoneId(o, index, step) :
                         step \in { st \in typeSteps : newTypeCatches >= st } }
          : index \in 0..(Len(typesList) - 1) } \ checked

\* variant: the starters are not guarded by checkedIds.has
NewStartersUnguarded(o, checked) == StarterIds(o)

\* local ids the Oak's Lab effect checks
NewStarters(o, checked) == StarterIds(o) \ checked

-----------------------------------------------------------------------------
(* Eligibility Evaluator *)

\* variant: the held type keys are not taken out of the missing types
MissingTypesAll(id, unlocks) ==
    { Capitalize(pokemonMetadata[id][i]) : i \in DOMAIN pokemonMetadata[id] }

\* pokemonTypes.filter(t => !typeUnlocks.has(t))
MissingTypes(id, unlocks) ==
    { Capitalize(pokemonMetadata[id][i]) : i \in DOMAIN pokemonMetadata[id] } \ unlocks

\* variant: the type-lock check precedes the unlock check
isPokemonGuessableTypesFirst(id) ==
    IF ~HasMetadata(id)
    THEN [ canGuess |-> TRUE, missingPokemon |-> FALSE, missingTypes |-> {} ]
    ELSE IF gameMode = "standalone"
    THEN [ canGuess |-> GenerationIndex(id) # -1 /\ GenerationIndex(id) \in generationFilter,
           missingPokemon |-> FALSE, missingTypes |-> {} ]
    ELSE IF typeLocksEnabled /\ MissingTypes(id, typeUnlocks) # {}
    THEN [ canGuess |-> FALSE, missingPokemon |-> FALSE,
           missingTypes |-> MissingTypes(id, typeUnlocks) ]
    ELSE IF id \notin unlockedIds
    THEN [ canGuess |-> FALSE, missingPokemon |-> TRUE, missingTypes |-> {} ]
    ELSE [ canGuess |-> TRUE, missingPokemon |-> FALSE, missingTypes |-> {} ]

\* variant: the unlock check precedes the standalone branch
isPokemonGuessableUnlockFirst(id) ==
    IF ~HasMetadata(id)
    THEN [ canGuess |-> TRUE, missingPokemon |-> FALSE, missingTypes |-> {} ]
    ELSE IF id \notin unlockedIds
    THEN [ canGuess |-> FALSE, missingPokemon |-> TRUE, missingTypes |-> {} ]
    ELSE IF gameMode = "standalone"
    THEN [ canGuess |-> GenerationIndex(id) # -1 /\ GenerationIndex(id) \in generationFilter,
           missingPokemon |-> FALSE, missingTypes |-> {} ]
    ELSE IF typeLocksEnabled /\ MissingTypes(id, typeUnlocks) # {}
    THEN [ canGuess |-> FALSE, missingPokemon |-> FALSE,
           missingTypes |-> MissingTypes(id, typeUnlocks) ]
    ELSE [ canGuess |-> TRUE, missingPokemon |-> FALSE, missingTypes |-> {} ]

\* variant: an id without a metadata entry is refused
isPokemonGuessableFailClosed(id) ==
    IF ~HasMetadata(id)
    THEN [ canGuess |-> FALSE, missingPokemon |-> FALSE, missingTypes |-> {} ]
    ELSE IF gameMode = "standalone"
    THEN [ canGuess |-> GenerationIndex(id) # -1 /\ GenerationIndex(id) \in generationFilter,
           missingPokemon |-> FALSE, missingTypes |-> {} ]
    ELSE IF id \notin unlockedIds
    THEN [ canGuess |-> FALSE, missingPokemon |-> TRUE, missingTypes |-> {} ]
    ELSE IF typeLocksEnabled /\ MissingTypes(id, typeUnlocks) # {}
    THEN [ canGuess |-> FALSE, missingPokemon |-> FALSE,
           missingTypes |-> MissingTypes(id, typeUnlocks) ]
    ELSE [ canGuess |-> TRUE, missingPokemon |-> FALSE, missingTypes |-> {} ]

isPokemonGuessable(id) ==
    IF ~HasMetadata(id)
    THEN [ canGuess |-> TRUE, missingPokemon |-> FALSE, missingTypes |-> {} ]
    ELSE IF gameMode = "standalone"
    THEN [ canGuess |-> GenerationIndex(id) # -1 /\ GenerationIndex(id) \in generationFilter,
           missingPokemon |-> FALSE, missingTypes |-> {} ]
    ELSE IF id \notin unlockedIds
    THEN [ canGuess |-> FALSE, missingPokemon |-> TRUE, missingTypes |-> {} ]
    ELSE IF typeLocksEnabled /\ MissingTypes(id, typeUnlocks) # {}
    THEN [ canGuess |-> FALSE, missingPokemon |-> FALSE,
           missingTypes |-> MissingTypes(id, typeUnlocks) ]
    ELSE [ canGuess |-> TRUE, missingPokemon |-> FALSE, missingTypes |-> {} ]


-----------------------------------------------------------------------------
(* The persisted keys and JSON *)

\* the keys whose content the useState initialisers parse
LedgerKeys ==
    { "pokepelago_usedMasterBalls", "pokepelago_usedPokegears", "pokepelago_usedPokedexes" }
StartupKeys == LedgerKeys \cup { "pokepelago_connection", "pokepelago_ui" }
\* and the one connect() parses
PersistedKeys == StartupKeys \cup { "pokepelago_datapackage" }

\* localStorage.getItem(key) when the key is absent or holds the empty
\* string: both are falsy, and every read tests `saved ?` or `if (saved)`
NoItem == ""

\* the number tokens of the texts and their values
NumberTokens == { "13" }
TokenValue(t) == IF t = "13" THEN 13 ELSE 0
TokenOf(n) == IF n = 13 THEN "13" ELSE "0"

\* the texts a key can hold: none, an array, an array cut short, an object
StoredItems == { NoItem, "[13]", "[13", "{}" }

\* the JSON tokens of a text
Tokens(text) ==
    CASE text = "[13]" -> << "[", "13", "]" >>
      [] text = "[13" -> << "[", "13" >>
      [] text = "[]" -> << "[", "]" >>
      [] text = "{}" -> << "{", "}" >>
      [] text = "13" -> << "13" >>
      [] OTHER -> << >>

\* the text of a sequence of tokens
RECURSIVE Join(_)
Join(tokens) == IF tokens = << >> THEN "" ELSE Head(tokens) \o Join(Tail(tokens))

\* the outcome of JSON.parse: a SyntaxError, or a value (an array is kept
\* as the set of its elements)
Thrown == [ ok |-> FALSE, kind |-> "", items |-> {} ]
Parsed(kind, items) == [ ok |-> TRUE, kind |-> kind, items |-> items ]

\* the elements between the brackets: numbers separated by commas
RECURSIVE ParseElements(_)
ParseElements(s) ==
    IF Len(s) = 1 /\ s[1] \in NumberTokens
    THEN Parsed("array", { TokenValue(s[1]) })
    ELSE IF Len(s) >= 3 /\ s[1] \in NumberTokens /\ s[2] = ","
    THEN LET rest == ParseElements(SubSeq(s, 3, Len(s)))
         IN  IF rest.ok
             THEN Parsed("array", rest.items \cup { TokenValue(s[1]) })
             ELSE Thrown
    ELSE Thrown

ParseTokens(t) ==
    IF Len(t) = 1 /\ t[1] \in NumberTokens
    THEN Parsed("number", { TokenValue(t[1]) })
    ELSE IF t = << "{", "}" >>
    THEN Parsed("object", {})
    ELSE IF t = << "[", "]" >>
    THEN Parsed("array", {})
    ELSE IF Len(t) >= 3 /\ t[1] = "[" /\ t[Len(t)] = "]"
    THEN ParseElements(SubSeq(t, 2, Len(t) - 1))
    ELSE Thrown

JSONParse(text) == ParseTokens(Tokens(text))

RECURSIVE StringifyItems(_)
StringifyItems(S) ==
    IF S = {}
    THEN << >>
    ELSE LET x == CHOOSE y \in S : TRUE
         IN  << TokenOf(x) >>
               \o (IF S = {x} THEN << >> ELSE << "," >> \o StringifyItems(S \ {x}))

\* JSON.stringify of a value
JSONStringify(v) ==
    Join(IF v.kind = "object"
         THEN << "{", "}" >>
         ELSE IF v.kind = "number"
         THEN StringifyItems(v.items)
         ELSE << "[" >> \o StringifyItems(v.items) \o << "]" >>)

\* the defaults of the connection form and of the UI settings: objects
DefaultsObject == Parsed("object", {})

\* saved ? new Set(JSON.parse(saved)) : new Set(): the parse can throw, and
\* new Set throws a TypeError for a value that is not iterable
LedgerInitial(item) ==
    IF item = NoItem
    THEN [ ok |-> TRUE, value |-> {} ]
    ELSE LET p == JSONParse(item)
         IN  IF p.ok /\ p.kind = "array"
             THEN [ ok |-> TRUE, value |-> p.items ]
             ELSE [ ok |-> FALSE, value |-> {} ]

\* connectionInfo: the parse is inside try / catch
ConnectionInitial(item) ==
    IF item = NoItem
    THEN DefaultsObject
    ELSE LET p == JSONParse(item)
         IN  IF p.ok THEN p ELSE DefaultsObject

\* uiSettings: saved ? { ...defaults, ...JSON.parse(saved) } : defaults
UiInitial(item) ==
    IF item = NoItem
    THEN [ ok |-> TRUE, value |-> DefaultsObject ]
    ELSE LET p == JSONParse(item)
         IN  [ ok |-> p.ok, value |-> DefaultsObject ]

\* localStorage after the save effects of the first commit have run
SavedStorage(store, balls, gears, dexes, info, ui) ==
    [ store EXCEPT
        !["pokepelago_usedMasterBalls"] = JSONStringify(Parsed("array", balls)),
        !["pokepelago_usedPokegears"] = JSONStringify(Parsed("array", gears)),
        !["pokepelago_usedPokedexes"] = JSONStringify(Parsed("array", dexes)),
        !["pokepelago_connection"] = JSONStringify(info),
        !["pokepelago_ui"] = JSONStringify(ui) ]

-----------------------------------------------------------------------------
(* Initial state: the page has loaded, nothing is connected *)

\* the server's record of the slot and the state of a provider that has
\* read nothing from storage
InitSession ==
    /\ serverChecked = { ServerOffsets.LOCATION_OFFSET + i : i \in 1..seed }
    /\ serverItems = {}
    /\ receivedOrder = << >>
    /\ offsets = LegacyOffsets
    /\ clientRef = 0
    /\ isConnectingRef = FALSE
    /\ clients = [ c \in Clients |-> "unused" ]
    /\ attempt = NoAttempt
    /\ connectionError = ""
    /\ checkedIds = {}
    /\ unlockedIds = {}
    /\ unlockedOrder = << >>
    /\ hintedIds = {}
    /\ shinyIds = {}
    /\ typeUnlocks = {}
    /\ typeLocksEnabled = FALSE
    /\ generationFilter = {0}
    /\ isConnected = FALSE
    /\ dirty = FALSE
    /\ releasedIds = {}
    /\ derpyfiedIds = {}
    /\ staleClients = {}
    /\ releaseTraps = 0
    /\ derpTraps = 0
    /\ storedReleased = {}
    /\ storedDerpyfied = {}
    /\ trapNotify = {}
    /\ releasedByTrap = 0
    /\ lastUpload = NoUpload
    /\ masterBalls = 0
    /\ usedMasterBalls = {}
    /\ ballsReceived = 0
    /\ ledger = {}
    /\ notifyPending = FALSE
    /\ snapshotIds = {}
    /\ sentOnce = {}
    /\ sentTwice = {}
    /\ unsent = {}
    /\ checkedChanged = FALSE
    /\ inputsChanged = FALSE
    /\ lastSent = {}
    /\ reapplied = ""
    /\ connectionQuality = "none"
    /\ pingLatency = "none"
    /\ pingTimeoutRef = 0
    /\ intervals = {}
    /\ bounces = {}
    /\ isAutoCompleting = FALSE
    /\ loops = [ l \in Loops |-> NoLoop ]
    /\ goalCount = NoGoal

\* the page has loaded in a browser whose storage held none of the keys
Init ==
    /\ serverVersion \in {"legacy", "new"}
    /\ slotData \in [ type_locks : BOOLEAN, pokemon_generations : {0}, goal_count : {NoGoal} ]
    /\ seed \in SeedSizes
    /\ gameMode \in GameModes
    /\ InitSession
    /\ localStorage = SavedStorage([ k \in PersistedKeys |-> NoItem ], {}, {}, {},
                                   DefaultsObject, DefaultsObject)
    /\ startup = "mounted"
    /\ usedPokegears = {}
    /\ usedPokedexes = {}
    /\ connectionInfo = DefaultsObject
    /\ uiSettings = DefaultsObject
    /\ packageCache = "unread"
    /\ modeSwitches = 0

\* the page is about to load in a browser whose storage holds any texts
InitStartup ==
    /\ serverVersion = "new"
    /\ slotData = [ type_locks |-> FALSE, pokemon_generations |-> 0, goal_count |-> NoGoal ]
    /\ seed \in SeedSizes
    /\ gameMode = "archipelago"
    /\ InitSession
    /\ localStorage \in [ PersistedKeys -> StoredItems ]
    /\ startup = "loading"
    /\ usedPokegears = {}
    /\ usedPokedexes = {}
    /\ connectionInfo = DefaultsObject
    /\ uiSettings = DefaultsObject
    /\ packageCache = "unread"
    /\ modeSwitches = 0

-----------------------------------------------------------------------------
(* Helpers of the actions *)

UnusedClients == { c \in Clients : clients[c] = "unused" }

\* new Client(): the next client not yet created
NewClient == CHOOSE c \in UnusedClients : \A d \in UnusedClients : c <= d

\* what the milestone scan reads
ScanInputs ==
    << checkedIds, isConnected, gameMode, typeLocksEnabled, typeUnlocks, offsets, clientRef >>

\* a request passed to the transport: Client.check or Client.scout of a
\* network location id, made for a local id
Request(kind, location, id) == [ kind |-> kind, location |-> location, id |-> id ]

\* history of a handler step (conjoined last: it reads the new state);
\* kind is the mutation it re-applied, requests what it passed to the
\* transport
TrackOp(kind, requests) ==
    /\ checkedChanged' = (checkedChanged \/ checkedIds' # checkedIds)
    /\ inputsChanged' = (inputsChanged \/ ScanInputs' # ScanInputs)
    /\ lastSent' = requests
    /\ reapplied' = kind

\* history of a handler step that re-applies nothing and sends nothing
Track == TrackOp("", {})

\* Client.check(locs) on a client: the server records the locations of the
\* slot it is sent; `delivered` is whether the client is authenticated.
\* newUnsent are the ids checkPokemon took while unauthenticated.
Transmit(delivered, locs, newUnsent) ==
    /\ serverChecked' =
         IF delivered THEN serverChecked \cup (locs \cap ServerLocations) ELSE serverChecked
    /\ unsent' =
         (unsent \cup newUnsent)
            \ (IF delivered THEN { l - ServerOffsets.LOCATION_OFFSET : l \in locs } ELSE {})

\* the connection info of the settings form: whether the hostname carries
\* a protocol is all connect() reads of it here
ConnectionInfos == [ hasProtocol : BOOLEAN ]

\* protocolsToTry.length - 1
MoreProtocols(info) == IF info.hasProtocol THEN 0 ELSE 1

\* variant: both protocols are tried whatever the hostname holds
protocolsToTryBoth(info) == << "wss://", "ws://" >>

\* protocolsToTry: the prefixes connect() puts before the hostname, in the
\* order of the loop
protocolsToTry(info) ==
    IF info.hasProtocol THEN << "" >> ELSE << "wss://", "ws://" >>

\* variant: the guard of connect() and doReconnect never holds
AlreadyConnectingNever == FALSE

\* if (isConnectingRef.current) return: the guard of connect() and of
\* doReconnect
AlreadyConnecting == isConnectingRef

\* the synchronous head of connect(info), past the isConnectingRef guard
StartConnect(info, pendingLocationId, pendingId) ==
    /\ isConnectingRef' = TRUE
    /\ isConnected' = FALSE
    /\ clientRef' = NewClient
    /\ clients' = [ clients EXCEPT ![NewClient] = "pending" ]
    /\ attempt' = [ client |-> NewClient, remaining |-> MoreProtocols(info),
                    pendingLocationId |-> pendingLocationId, pendingId |-> pendingId,
                    protocol |-> Head(protocolsToTry(info)),
                    untried |-> Tail(protocolsToTry(info)) ]
    /\ connectionError' = ""

-----------------------------------------------------------------------------
(* Operations *)

\* connect(info); firstRender: the connect() called is the one the first
\* render defined, whose handlers read that render's allPokemon and
\* derpemonIndex
ConnectFrom(info, firstRender) ==
    /\ ~dirty
    /\ UnusedClients # {}
    /\ IF AlreadyConnecting
       THEN UNCHANGED vars
       ELSE /\ StartConnect(info, 0, 0)
            /\ dirty' = isConnected
            /\ staleClients' =
                 IF firstRender THEN staleClients \cup {NewClient} ELSE staleClients
            /\ UNCHANGED << envVars, serverVars, offsets, gameMode,
                            storeVars, itemVars, hintedIds, shinyIds, releasedIds,
                            derpyfiedIds, releaseTraps, derpTraps, storedReleased,
                            storedDerpyfied, trapNotify, releasedByTrap, lastUpload,
                            snapshotIds, sentOnce, sentTwice, unsent >>
            /\ UNCHANGED << pingVars, autoVars, goalCount >>
            /\ Track

\* connect(info) called by the user (settings panel, splash screen)
Connect(info) == ConnectFrom(info, FALSE)

\* the body of checkPokemon(id), with the doReconnect it may start;
\* rerender: the handler that calls it has queued another state update
checkPokemonIn(id, savedInfo, rerender) ==
    /\ Authenticated(clientRef) \/ AlreadyConnecting \/ UnusedClients # {}
    /\ checkedIds' = checkedIds \cup {id}
    /\ UNCHANGED << envVars, serverItems, receivedOrder, offsets, gameMode, unlockedIds, unlockedOrder, typeUnlocks,
                    typeLocksEnabled, generationFilter, snapshotIds, sentOnce, sentTwice >>
    /\ IF Authenticated(clientRef)
       THEN /\ Transmit(TRUE, {offsets.LOCATION_OFFSET + id}, {})
            /\ dirty' = (rerender \/ id \notin checkedIds)
            /\ UNCHANGED << clientRef, isConnectingRef, clients, attempt, isConnected,
                                    connectionError >>
       ELSE /\ Transmit(FALSE, {}, {id})
            /\ IF AlreadyConnecting
               THEN /\ dirty' = (rerender \/ id \notin checkedIds)
                    /\ UNCHANGED << clientRef, isConnectingRef, clients, attempt, isConnected,
                                    connectionError >>
               ELSE /\ StartConnect(savedInfo, offsets.LOCATION_OFFSET + id, id)
                    /\ dirty' = (rerender \/ isConnected \/ id \notin checkedIds)
    /\ UNCHANGED << pingVars, goalCount >>
    /\ TrackOp(IF id \in checkedIds THEN "check" ELSE "",
               IF Authenticated(clientRef)
               THEN {Request("check", offsets.LOCATION_OFFSET + id, id)}
               ELSE {})

\* checkPokemon(id) called on its own
checkPokemon(id, savedInfo) ==
    /\ checkPokemonIn(id, savedInfo, FALSE)
    /\ UNCHANGED sideVars

\* the guess input (attemptGuess and the auto-submit effect) accepts the
\* name of creature id: it is not checked yet and the evaluator lets it
\* through
submitGuess(id, savedInfo) ==
    /\ ~dirty
    /\ id \notin releasedIds
    /\ id \notin checkedIds
    /\ isPokemonGuessable(id).canGuess
    /\ checkPokemon(id, savedInfo)

\* the player types the name
attemptGuess(id, savedInfo) ==
    /\ submitGuess(id, savedInfo)
    /\ UNCHANGED autoVars

\* variant: the reserved band has no upper end
DetectOffsetsNoUpperEnd(allLocs) ==
    IF \E l \in allLocs : l >= NEW_BAND_LOW
    THEN NewOffsets
    ELSE LegacyOffsets

\* the table the 'connected' handler selects from the packet's locations
DetectOffsets(allLocs) ==
    IF \E l \in allLocs : l >= NEW_BAND_LOW /\ l < NEW_BAND_HIGH
    THEN NewOffsets
    ELSE LegacyOffsets

\* LOCATION_OFFSET + id
ToLocationId(o, id) == o.LOCATION_OFFSET + id

\* locId - LOCATION_OFFSET
ToLocalId(o, locId) == locId - o.LOCATION_OFFSET

\* the 'connected' handler's decoding of checked_locations
DecodeChecked(o, checkedLocs) ==
    { l - o.LOCATION_OFFSET :
        l \in { x \in checkedLocs :
                  x >= o.LOCATION_OFFSET /\ x <= o.LOCATION_OFFSET + LOCATION_RANGE } }

IsCreatureItem(item) == item > ITEM_OFFSET /\ item <= ITEM_OFFSET + MAX_DEX

IsTypeKeyItem(o, item) ==
    /\ item >= ITEM_OFFSET + o.TYPE_ITEM_OFFSET
    /\ item <= ITEM_OFFSET + o.TYPE_ITEM_OFFSET + 17

TypeOfKey(o, item) == typesList[(item - (ITEM_OFFSET + o.TYPE_ITEM_OFFSET)) + 1]

\* the Master Ball item as the server numbers it
ServerBallItem == ITEM_OFFSET + ServerOffsets.USEFUL_ITEM_OFFSET + 1

\* client.items.received.filter(i => i.id === item).length
ReceivedCount(item, balls, items) ==
    IF item = ServerBallItem THEN balls ELSE IF item \in items THEN 1 ELSE 0

\* totalServer of the Master Balls under table o
BallTotal(o, balls, items) == ReceivedCount(ITEM_OFFSET + o.USEFUL_ITEM_OFFSET + 1, balls, items)

\* the items for which the 'itemsReceived' handler sets recalculateItems
RecalculatesItems(o, item) ==
    /\ ~IsCreatureItem(item)
    /\ ~IsTypeKeyItem(o, item)
    /\ item \in { ITEM_OFFSET + o.TRAP_ITEM_OFFSET + 3, ITEM_OFFSET + o.TRAP_ITEM_OFFSET + 4,
                  ITEM_OFFSET + o.USEFUL_ITEM_OFFSET + 1, ITEM_OFFSET + o.USEFUL_ITEM_OFFSET + 2,
                  ITEM_OFFSET + o.USEFUL_ITEM_OFFSET + 3 }

\* the Release Trap and the Derpy Mon Trap items as the server numbers them
ServerReleaseItem == ITEM_OFFSET + ServerOffsets.TRAP_ITEM_OFFSET + 4
ServerDerpItem == ITEM_OFFSET + ServerOffsets.TRAP_ITEM_OFFSET + 3

\* the Pokegear, a useful item that is no trap
ServerGearItem == ITEM_OFFSET + ServerOffsets.USEFUL_ITEM_OFFSET + 2

\* every item the server has sent to the slot
ReceivedItems ==
    serverItems \cup (IF ballsReceived > 0 THEN {ServerBallItem} ELSE {})
                \cup (IF releaseTraps > 0 THEN {ServerReleaseItem} ELSE {})
                \cup (IF derpTraps > 0 THEN {ServerDerpItem} ELSE {})

\* client.items.received.filter(i => i.id === item).length, the traps
\* counted: rel Release Traps and derp Derpy Mon Traps were sent
TrapCount(item, rel, derp) ==
    IF item = ServerReleaseItem THEN rel
    ELSE IF item = ServerDerpItem THEN derp
    ELSE ReceivedCount(item, ballsReceived, serverItems)

\* the creatures that have an entry in the derpemon index
DerpAssets == {2, 13}

\* allPokemon and derpemonIndex as the handlers of client c read them: both
\* are empty in the closure of the first render's connect()
HandlerAssets(c) == IF c \in staleClients THEN {} ELSE DerpAssets \cap (1..WorldSize)

\* the sets a loop can build that splices k random elements out of pool,
\* or all of them when pool has fewer
RECURSIVE Picks(_, _)
Picks(pool, k) ==
    IF k <= 0 \/ pool = {}
    THEN {{}}
    ELSE UNION { { S \cup {x} : S \in Picks(pool \ {x}, k - 1) } : x \in pool }

\* the picks of the Derpy Mon loop: from the guessed or guessable
\* candidates while there are any, then from the rest of basePathPokes
DerpPicks(base, first, k) ==
    IF first = {}
    THEN Picks(base, k)
    ELSE IF Cardinality(first) >= k
    THEN Picks(first, k)
    ELSE { first \cup T : T \in Picks(base \ first, k - Cardinality(first)) }

\* validCheckedIds of the Release Trap
ReleasePool(checked, released) ==
    { id \in checked : id # 1 /\ id # 4 /\ id # 7 /\ id \notin released }

\* variant: every id of the new set is uploaded
UnsyncedAll(newSet, oldSet) == newSet

\* unsynced: Array.from(newSet).filter(id => !oldSet.has(id))
Unsynced(newSet, oldSet) == newSet \ oldSet

\* the storage keys among derpyfied and released whose list differs from
\* the one a subscriber was last told
ChangedKeys(knownDerpyfied, knownReleased, newDerpyfied, newReleased) ==
    (IF newDerpyfied # knownDerpyfied THEN {"derpyfied"} ELSE {})
        \cup (IF newReleased # knownReleased THEN {"released"} ELSE {})

\* the trap processing of the 'itemsReceived' handler of client c, which
\* runs when the event held a trap or a useful item: rel and derp are the
\* traps received by then, checked is checkedIdsRef.current
ProcessTraps(c, o, checked, rel, derp, run) ==
    IF ~run
    THEN /\ UNCHANGED << releasedIds, derpyfiedIds, storedReleased, storedDerpyfied,
                         releasedByTrap >>
         /\ lastUpload' = NoUpload
    ELSE LET derpTotal == TrapCount(ITEM_OFFSET + o.TRAP_ITEM_OFFSET + 3, rel, derp)
             relTotal == TrapCount(ITEM_OFFSET + o.TRAP_ITEM_OFFSET + 4, rel, derp)
             base == HandlerAssets(c) \ derpyfiedIds
             first == { q \in base : q \in checked \/ isPokemonGuessable(q).canGuess }
             derpSets == IF derpTotal > Cardinality(derpyfiedIds)
                         THEN DerpPicks(base, first, derpTotal - Cardinality(derpyfiedIds))
                         ELSE {{}}
             relSets == IF relTotal > Cardinality(releasedIds)
                        THEN Picks(ReleasePool(checked, releasedIds),
                                   relTotal - Cardinality(releasedIds))
                        ELSE {{}}
         IN  \E D \in derpSets, R \in relSets :
                /\ derpyfiedIds' = derpyfiedIds \cup D
                /\ releasedIds' = releasedIds \cup R
                /\ lastUpload' =
                     [ derpyfied |-> Unsynced(derpyfiedIds \cup D, derpyfiedIds),
                       released |-> Unsynced(releasedIds \cup R, releasedIds) ]
                /\ storedDerpyfied' = storedDerpyfied \cup lastUpload'.derpyfied
                /\ storedReleased' = storedReleased \cup lastUpload'.released
                /\ releasedByTrap' = releasedByTrap + Cardinality(R)

\* receivedPokemonIds.slice(0, shinyCount)
FirstUnlocked(order, shinyCount) ==
    { order[i] : i \in { j \in DOMAIN order : j <= shinyCount } }

\* slot_data.pokemon_generations to the generation filter
GenerationsFilter(gens) == IF gens \in 0..8 THEN 0..gens ELSE generationFilter

\* client.login resolves: the 'connected' handler runs on the Connected
\* packet and the received items are replayed to 'itemsReceived', then
\* the storage subscription answers and pushes the Master Balls used
\* locally that the server does not hold, then connect() continues after
\* its await, then doReconnect (if it was the caller) replays its pending
\* check
LoginSucceed ==
    /\ ~dirty
    /\ attempt.client # 0
    /\ clients[attempt.client] = "pending"
    /\ LET c == attempt.client
           o == DetectOffsets(ServerLocations)
           newChecked == DecodeChecked(o, serverChecked)
           replay == IF attempt.pendingLocationId # 0 /\ clientRef = c
                     THEN {attempt.pendingLocationId}
                     ELSE {}
       IN  /\ offsets' = o
           /\ checkedIds' = newChecked
           /\ unlockedIds' = { i - ITEM_OFFSET : i \in { x \in serverItems : IsCreatureItem(x) } }
           /\ unlockedOrder' = receivedOrder
           /\ shinyIds' =
                IF ReceivedCount(SHINY_UPGRADE, ballsReceived, serverItems) > 0
                THEN FirstUnlocked(receivedOrder,
                                   ReceivedCount(SHINY_UPGRADE, ballsReceived, serverItems))
                ELSE shinyIds
           /\ typeUnlocks' = { TypeOfKey(o, i) : i \in { x \in serverItems : IsTypeKeyItem(o, x) } }
           /\ typeLocksEnabled' = slotData.type_locks
           /\ generationFilter' = GenerationsFilter(slotData.pokemon_generations)
           /\ goalCount' = IF slotData.goal_count # NoGoal THEN slotData.goal_count ELSE goalCount
           /\ clients' = [ clients EXCEPT ![c] = "authenticated" ]
           /\ isConnected' = TRUE
           /\ isConnectingRef' = FALSE
           /\ attempt' = NoAttempt
           /\ connectionError' = ""
           /\ snapshotIds' = newChecked
           /\ masterBalls' =
                IF \E item \in ReceivedItems : RecalculatesItems(o, item)
                THEN Max(0, BallTotal(o, ballsReceived, serverItems)
                               - Cardinality(usedMasterBalls))
                ELSE masterBalls
           /\ ledger' = ledger \cup usedMasterBalls
           /\ notifyPending' =
                \/ usedMasterBalls \ ledger # {}
                \/ notifyPending /\ \E d \in Clients : clients[d] = "authenticated"
           /\ ProcessTraps(c, o, newChecked, releaseTraps, derpTraps,
                           \E item \in ReceivedItems : RecalculatesItems(o, item))
           /\ trapNotify' = ChangedKeys({}, {}, storedDerpyfied', storedReleased')
           /\ Transmit(TRUE, replay, {})
           /\ dirty' = TRUE
           /\ UNCHANGED << envVars, serverItems, receivedOrder, clientRef, gameMode, sentOnce,
                           sentTwice, usedMasterBalls, ballsReceived, hintedIds,
                           staleClients, releaseTraps, derpTraps >>
           /\ connectionQuality' = "good"
           /\ intervals' = (intervals \ {pingTimeoutRef}) \cup {c}
           /\ pingTimeoutRef' = c
           /\ UNCHANGED << pingLatency, bounces >>
           /\ UNCHANGED autoVars
           /\ TrackOp("", { Request("check", l, attempt.pendingId) : l \in replay })

\* client.login rejects and connect() has another protocol to try: the
\* client is dropped and the next one created
LoginFailRetry ==
    /\ ~dirty
    /\ attempt.client # 0
    /\ attempt.remaining > 0
    /\ UnusedClients # {}
    /\ clientRef' = NewClient
    /\ clients' = [ clients EXCEPT ![attempt.client] = "closed", ![NewClient] = "pending" ]
    /\ attempt.untried # << >>
    /\ attempt' = [ attempt EXCEPT !.client = NewClient, !.remaining = attempt.remaining - 1,
                                   !.protocol = Head(attempt.untried),
                                   !.untried = Tail(attempt.untried) ]
    /\ UNCHANGED connectionError
    /\ staleClients' =
         IF attempt.client \in staleClients THEN staleClients \cup {NewClient} ELSE staleClients
    /\ UNCHANGED << envVars, serverVars, offsets, isConnectingRef, gameMode,
                    storeVars, isConnected, dirty, snapshotIds, sentOnce, sentTwice, unsent >>
    /\ UNCHANGED << itemVars, hintedIds, shinyIds, releasedIds, derpyfiedIds, releaseTraps,
                    derpTraps, storedReleased, storedDerpyfied, trapNotify, releasedByTrap,
                    lastUpload >>
    /\ UNCHANGED << pingVars, autoVars, goalCount >>
    /\ Track

\* client.login rejects for the last protocol, or with an
\* authentication-class error: connect() gives up
LoginFailFinal(authClass) ==
    /\ ~dirty
    /\ attempt.client # 0
    /\ authClass \/ attempt.remaining = 0
    /\ clients' = [ clients EXCEPT ![attempt.client] = "closed" ]
    /\ attempt' = NoAttempt
    /\ connectionError' = "Failed to connect"
    /\ isConnected' = FALSE
    /\ isConnectingRef' = FALSE
    /\ dirty' = isConnected
    /\ UNCHANGED << envVars, serverVars, offsets, clientRef, gameMode,
                    storeVars, snapshotIds, sentOnce, sentTwice, unsent >>
    /\ UNCHANGED sideVars
    /\ intervals' = IF authClass THEN intervals \ {pingTimeoutRef} ELSE intervals
    /\ UNCHANGED << connectionQuality, pingLatency, pingTimeoutRef, bounces >>
    /\ UNCHANGED << autoVars, goalCount >>
    /\ Track

\* the 'disconnected' socket event of client c: the server or the network
\* dropped an authenticated session
TransportDisconnected(c) ==
    /\ ~dirty
    /\ clients[c] = "authenticated"
    /\ clients' = [ clients EXCEPT ![c] = "closed" ]
    /\ isConnected' = FALSE
    /\ dirty' = isConnected
    /\ UNCHANGED << envVars, serverVars, offsets, clientRef, isConnectingRef, attempt, connectionError,
                    gameMode, storeVars, snapshotIds, sentOnce, sentTwice,
                    unsent >>
    /\ UNCHANGED sideVars
    /\ connectionQuality' = "dead"
    /\ pingLatency' = "none"
    /\ intervals' = intervals \ {pingTimeoutRef}
    /\ pingTimeoutRef' = 0
    /\ bounces' = bounces \ {c}
    /\ UNCHANGED << autoVars, goalCount >>
    /\ Track

\* disconnect() called by the user
Disconnect ==
    /\ ~dirty
    /\ clientRef' = 0
    /\ clients' = IF clientRef # 0 THEN [ clients EXCEPT ![clientRef] = "closed" ] ELSE clients
    /\ isConnected' = FALSE
    /\ unlockedIds' = {}
    /\ unlockedOrder' = << >>
    /\ checkedIds' = {}
    /\ hintedIds' = {}
    /\ dirty' = TRUE
    /\ UNCHANGED << envVars, serverVars, offsets, isConnectingRef, attempt, connectionError,
                    gameMode, typeUnlocks, typeLocksEnabled, generationFilter, snapshotIds,
                    sentOnce, sentTwice, unsent >>
    /\ UNCHANGED << itemVars, shinyIds, trapVars >>
    /\ intervals' = intervals \ {pingTimeoutRef}
    /\ pingTimeoutRef' = 0
    /\ pingLatency' = "none"
    /\ connectionQuality' = "none"
    /\ bounces' = bounces \ {clientRef}
    /\ UNCHANGED << autoVars, goalCount >>
    /\ Track

\* the server sends one item to the slot and the 'itemsReceived' handler of
\* the receiving client runs
ItemsReceived(item) ==
    /\ ~dirty
    /\ \E c \in Clients : clients[c] = "authenticated"
    /\ IF item = ServerBallItem
       THEN /\ ballsReceived < MaxBalls
            /\ ballsReceived' = ballsReceived + 1
            /\ UNCHANGED << serverItems, receivedOrder, releaseTraps, derpTraps >>
       ELSE IF item = ServerReleaseItem
       THEN /\ releaseTraps < MaxReleaseTraps
            /\ releaseTraps' = releaseTraps + 1
            /\ UNCHANGED << serverItems, receivedOrder, ballsReceived, derpTraps >>
       ELSE IF item = ServerDerpItem
       THEN /\ derpTraps < MaxTraps
            /\ derpTraps' = derpTraps + 1
            /\ UNCHANGED << serverItems, receivedOrder, ballsReceived, releaseTraps >>
       ELSE /\ item \notin serverItems
            /\ UNCHANGED << releaseTraps, derpTraps >>
            /\ serverItems' = serverItems \cup {item}
            /\ receivedOrder' =
                 IF IsCreatureItem(item)
                 THEN Append(receivedOrder, item - ITEM_OFFSET)
                 ELSE receivedOrder
            /\ UNCHANGED ballsReceived
    /\ IF IsCreatureItem(item)
       THEN /\ unlockedIds' = unlockedIds \cup {item - ITEM_OFFSET}
            /\ unlockedOrder' =
                 IF item - ITEM_OFFSET \in unlockedIds
                 THEN unlockedOrder
                 ELSE Append(unlockedOrder, item - ITEM_OFFSET)
            /\ dirty' = (item - ITEM_OFFSET \notin unlockedIds)
            /\ UNCHANGED << shinyIds, typeUnlocks, masterBalls >>
       ELSE IF item = SHINY_UPGRADE
       THEN /\ shinyIds' =
                 IF Cardinality(shinyIds) < Len(unlockedOrder)
                 THEN shinyIds \cup {unlockedOrder[Cardinality(shinyIds) + 1]}
                 ELSE shinyIds
            /\ UNCHANGED << unlockedIds, unlockedOrder, typeUnlocks, masterBalls, dirty >>
       ELSE IF IsTypeKeyItem(offsets, item)
       THEN /\ typeUnlocks' = typeUnlocks \cup {TypeOfKey(offsets, item)}
            /\ dirty' = TRUE
            /\ UNCHANGED << unlockedIds, unlockedOrder, shinyIds, masterBalls >>
       ELSE IF RecalculatesItems(offsets, item)
       THEN /\ masterBalls' =
                 Max(0, BallTotal(offsets, ballsReceived', serverItems')
                          - Cardinality(usedMasterBalls))
            /\ dirty' = (masterBalls' # masterBalls)
            /\ UNCHANGED << unlockedIds, unlockedOrder, shinyIds, typeUnlocks >>
       ELSE UNCHANGED << unlockedIds, unlockedOrder, shinyIds, typeUnlocks, masterBalls, dirty >>
    /\ \E c \in Clients :
          /\ clients[c] = "authenticated"
          /\ ProcessTraps(c, offsets, checkedIds, releaseTraps', derpTraps',
                          /\ ~IsCreatureItem(item)
                          /\ item # SHINY_UPGRADE
                          /\ RecalculatesItems(offsets, item))
    /\ trapNotify' = trapNotify \cup ChangedKeys(storedDerpyfied, storedReleased,
                                                 storedDerpyfied', storedReleased')
    /\ UNCHANGED << envVars, serverChecked, offsets, connVars, gameMode, checkedIds,
                    typeLocksEnabled, generationFilter, isConnected, snapshotIds, sentOnce,
                    sentTwice, unsent, usedMasterBalls, ledger, notifyPending, hintedIds,
                    staleClients >>
    /\ UNCHANGED << pingVars, autoVars, goalCount >>
    /\ TrackOp(IF IsCreatureItem(item)
               THEN IF item - ITEM_OFFSET \in unlockedIds THEN "unlock" ELSE ""
               ELSE IF item # SHINY_UPGRADE /\ IsTypeKeyItem(offsets, item)
                       /\ TypeOfKey(offsets, item) \in typeUnlocks
               THEN "grant"
               ELSE "",
               {})

\* setGameMode(mode)
SetGameMode(mode) ==
    /\ ~dirty
    /\ mode # gameMode
    /\ modeSwitches < MaxModeSwitches
    /\ modeSwitches' = modeSwitches + 1
    /\ gameMode' = mode
    /\ dirty' = TRUE
    /\ UNCHANGED << serverVersion, slotData, seed, bootVars, serverVars, offsets, connVars, storeVars, isConnected,
                    snapshotIds, sentOnce, sentTwice, unsent >>
    /\ UNCHANGED sideVars
    /\ UNCHANGED << pingVars, autoVars, goalCount >>
    /\ Track

\* guessedCount of the Goal effect: the checked ids in 1..499 and 520..999
GoalGuessedCount(checked) ==
    Cardinality({ id \in checked : (id >= 1 /\ id < 500) \/ (id >= 520 /\ id < 1000) })

\* ClientStatus.CLIENT_GOAL
CLIENT_GOAL == 30

\* the guards of the Goal effect
GoalRuns == clientRef # 0 /\ isConnected /\ gameMode = "archipelago" /\ goalCount # NoGoal

\* the guard of the Oak's Lab effect
OakRuns == clientRef # 0 /\ isConnected /\ gameMode = "archipelago"

\* the guard of the checkExtendedLocations effect
ScanRuns == clientRef # 0 /\ isConnected /\ gameMode # "standalone"

\* the passive effects of a commit, in declaration order: the Oak's Lab
\* auto-check, then checkExtendedLocations; both read the committed state,
\* and the setCheckedIds updates they queue are committed together
RunEffects ==
    /\ dirty
    /\ LET starters == IF OakRuns THEN NewStarters(offsets, checkedIds) ELSE {}
           milestones ==
               IF ScanRuns
               THEN NewGlobalMilestones(offsets, checkedIds)
                      \cup NewTypeMilestones(offsets, checkedIds, typeLocksEnabled, typeUnlocks)
               ELSE {}
           emitted == starters \cup milestones
           emittedLocs == { offsets.LOCATION_OFFSET + id : id \in emitted }
       IN  /\ Transmit(Authenticated(clientRef), emittedLocs, {})
           /\ sentOnce' = sentOnce \cup emittedLocs
           /\ sentTwice' = sentTwice \cup (emittedLocs \cap sentOnce)
           /\ checkedIds' = checkedIds \cup emitted
           /\ dirty' = (emitted # {})
           /\ checkedChanged' = IF ScanRuns THEN emitted # {} ELSE checkedChanged
           /\ inputsChanged' = IF ScanRuns THEN emitted # {} ELSE inputsChanged
           /\ lastSent' =
                { Request("check", offsets.LOCATION_OFFSET + id, id) : id \in emitted }
                   \cup (IF GoalRuns /\ GoalGuessedCount(checkedIds) >= goalCount
                         THEN {Request("status", CLIENT_GOAL, 0)}
                         ELSE {})
           /\ reapplied' = ""
    /\ UNCHANGED << envVars, serverItems, receivedOrder, offsets, connVars, gameMode, unlockedIds, unlockedOrder,
                    typeUnlocks, typeLocksEnabled, generationFilter, isConnected, snapshotIds >>
    /\ UNCHANGED sideVars
    /\ UNCHANGED << pingVars, autoVars, goalCount >>

\* the form of the main behaviours holds a host name without protocol, so
\* that connect() has two urls to try
HostInfos == { info \in ConnectionInfos : ~info.hasProtocol }

Next ==
    \/ \E info \in HostInfos : Connect(info)
    \/ \E id \in GuessIds, savedInfo \in HostInfos : attemptGuess(id, savedInfo)
    \/ LoginSucceed
    \/ LoginFailRetry
    \/ \E authClass \in BOOLEAN : LoginFailFinal(authClass)
    \/ \E c \in Clients : TransportDisconnected(c)
    \/ Disconnect
    \/ \E item \in ItemPool : ItemsReceived(item)
    \/ RunEffects

Spec == Init /\ [][Next]_vars

\* a page that loads against a server of the new apworld
InitModes == Init /\ serverVersion = "new"

\* the behaviours in which the player also changes the game mode; the
\* failures of a login and disconnect() are left to Spec
NextModes ==
    \/ \E info \in HostInfos : Connect(info)
    \/ \E id \in GuessIds, savedInfo \in HostInfos : attemptGuess(id, savedInfo)
    \/ LoginSucceed
    \/ \E c \in Clients : TransportDisconnected(c)
    \/ \E item \in ItemPool : ItemsReceived(item)
    \/ \E mode \in GameModes : SetGameMode(mode)
    \/ RunEffects

SpecModes == InitModes /\ [][NextModes]_vars

-----------------------------------------------------------------------------
(* Store operations of the debug panel and the settings panel, and the     *)
(* behaviours in which the Eligibility Evaluator is exercised through them *)

\* unlockPokemon(id)
unlockPokemon(id) ==
    /\ ~dirty
    /\ unlockedIds' = unlockedIds \cup {id}
    /\ unlockedOrder' = IF id \in unlockedIds THEN unlockedOrder ELSE Append(unlockedOrder, id)
    /\ dirty' = (id \notin unlockedIds)
    /\ UNCHANGED << envVars, serverVars, offsets, connVars, gameMode, checkedIds,
                    typeUnlocks, typeLocksEnabled, generationFilter, isConnected,
                    snapshotIds, sentOnce, sentTwice, unsent >>
    /\ UNCHANGED sideVars
    /\ UNCHANGED << pingVars, autoVars, goalCount >>
    /\ TrackOp(IF id \in unlockedIds THEN "unlock" ELSE "", {})

\* variant: the grant of a key already held takes it away
unlockTypeToggle(typeName) ==
    /\ ~dirty
    /\ typeUnlocks' =
         IF typeName \in typeUnlocks THEN typeUnlocks \ {typeName} ELSE typeUnlocks \cup {typeName}
    /\ dirty' = TRUE
    /\ UNCHANGED << envVars, serverVars, offsets, connVars, gameMode, checkedIds,
                    unlockedIds, unlockedOrder, typeLocksEnabled, generationFilter, isConnected,
                    snapshotIds, sentOnce, sentTwice, unsent >>
    /\ UNCHANGED sideVars
    /\ UNCHANGED << pingVars, autoVars, goalCount >>
    /\ TrackOp(IF typeName \in typeUnlocks THEN "grant" ELSE "", {})

\* unlockType(typeName): the updater always builds a new Set
unlockType(typeName) ==
    /\ ~dirty
    /\ typeUnlocks' = typeUnlocks \cup {typeName}
    /\ dirty' = TRUE
    /\ UNCHANGED << envVars, serverVars, offsets, connVars, gameMode, checkedIds,
                    unlockedIds, unlockedOrder, typeLocksEnabled, generationFilter, isConnected,
                    snapshotIds, sentOnce, sentTwice, unsent >>
    /\ UNCHANGED sideVars
    /\ UNCHANGED << pingVars, autoVars, goalCount >>
    /\ TrackOp(IF typeName \in typeUnlocks THEN "grant" ELSE "", {})

\* lockType(typeName)
lockType(typeName) ==
    /\ ~dirty
    /\ typeUnlocks' = typeUnlocks \ {typeName}
    /\ dirty' = TRUE
    /\ UNCHANGED << envVars, serverVars, offsets, connVars, gameMode, checkedIds,
                    unlockedIds, unlockedOrder, typeLocksEnabled, generationFilter, isConnected,
                    snapshotIds, sentOnce, sentTwice, unsent >>
    /\ UNCHANGED sideVars
    /\ UNCHANGED << pingVars, autoVars, goalCount >>
    /\ Track

\* toggleGen(index) of the settings panel; its button is disabled while
\* connected
toggleGen(index) ==
    /\ ~dirty
    /\ ~isConnected
    /\ generationFilter' =
         IF index \in generationFilter
         THEN IF Cardinality(generationFilter) = 1
              THEN generationFilter
              ELSE generationFilter \ {index}
         ELSE generationFilter \cup {index}
    /\ dirty' = (generationFilter' # generationFilter)
    /\ UNCHANGED << envVars, serverVars, offsets, connVars, gameMode, checkedIds,
                    unlockedIds, unlockedOrder, typeUnlocks, typeLocksEnabled, isConnected,
                    snapshotIds, sentOnce, sentTwice, unsent >>
    /\ UNCHANGED sideVars
    /\ UNCHANGED << pingVars, autoVars, goalCount >>
    /\ Track

\* the mutation of CanUse that lets a use through whatever the count
CanUseAlways(count) == TRUE

\* if (masterBalls > 0), and likewise for pokegears and pokedexes
CanUse(count) == count > 0

\* useMasterBall(pokemonId): the item buttons of the detail modal are
\* rendered for a creature that is not checked
useMasterBall(pokemonId, savedInfo) ==
    /\ ~dirty
    /\ pokemonId \notin checkedIds
    /\ IF CanUse(masterBalls)
       THEN /\ masterBalls' = masterBalls - 1
            /\ usedMasterBalls' = usedMasterBalls \cup {pokemonId}
            /\ IF Authenticated(clientRef)
               THEN /\ ledger' = ledger \cup {pokemonId}
                    /\ notifyPending' = TRUE
               ELSE UNCHANGED << ledger, notifyPending >>
            /\ UNCHANGED << ballsReceived, hintedIds, shinyIds, trapVars >>
            /\ checkPokemonIn(pokemonId, savedInfo, TRUE)
            /\ UNCHANGED autoVars
       ELSE UNCHANGED vars

\* another client of the slot uses a Master Ball on pokemonId: the server
\* records the check it sends, adds pokemonId to the key and notifies the
\* subscribers
RemoteUse(pokemonId) ==
    /\ ~dirty
    /\ pokemonId \notin ledger
    /\ ledger' = ledger \cup {pokemonId}
    /\ serverChecked' =
         serverChecked \cup ({ServerOffsets.LOCATION_OFFSET + pokemonId} \cap ServerLocations)
    /\ notifyPending' = (notifyPending \/ \E c \in Clients : clients[c] = "authenticated")
    /\ UNCHANGED << envVars, serverItems, receivedOrder, offsets, connVars, gameMode,
                    storeVars, isConnected, dirty, masterBalls, usedMasterBalls, ballsReceived,
                    hintedIds, shinyIds, trapVars, snapshotIds, sentOnce, sentTwice, unsent >>
    /\ UNCHANGED << pingVars, autoVars, goalCount >>
    /\ Track

\* the callback of client.storage.notify for the used_masterballs key
LedgerNotify ==
    /\ ~dirty
    /\ notifyPending
    /\ \E c \in Clients : clients[c] = "authenticated"
    /\ usedMasterBalls' = usedMasterBalls \cup ledger
    /\ masterBalls' =
         Max(0, BallTotal(offsets, ballsReceived, serverItems) - Cardinality(usedMasterBalls'))
    /\ notifyPending' = FALSE
    /\ dirty' = TRUE
    /\ UNCHANGED << envVars, serverVars, offsets, connVars, gameMode, storeVars, isConnected,
                    ballsReceived, ledger, hintedIds, shinyIds, trapVars, snapshotIds, sentOnce,
                    sentTwice, unsent >>
    /\ UNCHANGED << pingVars, autoVars, goalCount >>
    /\ Track

\* the callback of client.storage.notify for the derpyfied or the released
\* key, and the answer to the subscription: the local set becomes the
\* server's list
StorageNotify(key) ==
    /\ ~dirty
    /\ key \in trapNotify
    /\ \E c \in Clients : clients[c] = "authenticated"
    /\ trapNotify' = trapNotify \ {key}
    /\ IF key = "derpyfied"
       THEN derpyfiedIds' = storedDerpyfied /\ UNCHANGED releasedIds
       ELSE releasedIds' = storedReleased /\ UNCHANGED derpyfiedIds
    /\ UNCHANGED << envVars, serverVars, offsets, connVars, gameMode, storeVars, isConnected,
                    dirty, itemVars, hintedIds, shinyIds, staleClients, releaseTraps,
                    derpTraps, storedReleased, storedDerpyfied, releasedByTrap, lastUpload,
                    snapshotIds, sentOnce, sentTwice, unsent >>
    /\ UNCHANGED << pingVars, autoVars, goalCount >>
    /\ Track

\* variant: the guess of a released creature is handled as a first guess
reGuessAsFirstGuess(id) ==
    /\ ~dirty
    /\ id \in releasedIds
    /\ checkPokemon(id, [ hasProtocol |-> TRUE ])
    /\ UNCHANGED autoVars

\* the guess input (attemptGuess and the auto-submit effect) is given the
\* name of a creature that is in releasedIds: it is re-caught
recatch(id) ==
    /\ ~dirty
    /\ id \in releasedIds
    /\ releasedIds' = releasedIds \ {id}
    /\ UNCHANGED << envVars, serverVars, offsets, connVars, gameMode, storeVars, isConnected,
                    dirty, itemVars, hintedIds, shinyIds, derpyfiedIds, staleClients,
                    releaseTraps, derpTraps, storedReleased, storedDerpyfied, trapNotify,
                    releasedByTrap, lastUpload, snapshotIds, sentOnce, sentTwice, unsent >>
    /\ UNCHANGED << pingVars, goalCount >>
    /\ Track

\* the player types the name of a released creature
reGuess(id) ==
    /\ recatch(id)
    /\ UNCHANGED autoVars

\* the mount effect finds pokepelago_connected set and calls the connect()
\* of the first render, before anything else has happened on the page
AutoConnect(info) ==
    /\ \A c \in Clients : clients[c] = "unused"
    /\ ~isConnectingRef
    /\ gameMode = "archipelago"
    /\ ConnectFrom(info, TRUE)

\* the behaviours of the Master Ball: the server sends the item, the player
\* uses it on the creatures of GuessIds, connected or not
NextItems ==
    \/ \E info \in HostInfos : Connect(info)
    \/ LoginSucceed
    \/ \E c \in Clients : TransportDisconnected(c)
    \/ Disconnect
    \/ ItemsReceived(ServerBallItem)
    \/ \E id \in GuessIds, savedInfo \in ConnectionInfos : useMasterBall(id, savedInfo)
    \/ \E id \in GuessIds : RemoteUse(id)
    \/ LedgerNotify
    \/ RunEffects

SpecItems == Init /\ [][NextItems]_vars

\* checkPokemon(id) called through the context value
CheckCall(id, savedInfo) ==
    /\ ~dirty
    /\ checkPokemon(id, savedInfo)
    /\ UNCHANGED autoVars

\* a Hint packet (printJSON) or a locationInfo packet names the item of
\* creature id for this slot: the updater always builds a new Set, which
\* no effect depends on
HintReceived(id) ==
    /\ ~dirty
    /\ \E c \in Clients : clients[c] = "authenticated"
    /\ hintedIds' = hintedIds \cup {id}
    /\ UNCHANGED << envVars, serverVars, offsets, connVars, gameMode, storeVars, isConnected,
                    dirty, itemVars, shinyIds, trapVars, snapshotIds, sentOnce, sentTwice,
                    unsent >>
    /\ UNCHANGED << pingVars, autoVars, goalCount >>
    /\ TrackOp(IF id \in hintedIds THEN "hint" ELSE "", {})

\* scoutLocation(locationId): Client.scout of the location when the
\* client is authenticated, else nothing
scoutLocation(locationId, id) ==
    /\ UNCHANGED << envVars, serverVars, offsets, connVars, gameMode, storeVars, isConnected,
                    dirty, sideVars, snapshotIds, sentOnce, sentTwice, unsent >>
    /\ UNCHANGED << pingVars, autoVars, goalCount >>
    /\ TrackOp("", IF Authenticated(clientRef) THEN {Request("scout", locationId, id)} ELSE {})

\* the detail modal of a checked creature is opened while connected: its
\* effect scouts the creature's location
ScoutSelected(selectedPokemonId) ==
    /\ ~dirty
    /\ selectedPokemonId \in checkedIds
    /\ isConnected
    /\ scoutLocation(selectedPokemonId + SCOUT_BASE, selectedPokemonId)

\* the behaviours in which requests are passed to the transport: guesses
\* (and the replay after a reconnect), starters, milestones and scouts
NextRequests ==
    \/ \E info \in HostInfos : Connect(info)
    \/ \E id \in GuessIds, savedInfo \in ConnectionInfos : attemptGuess(id, savedInfo)
    \/ LoginSucceed
    \/ \E c \in Clients : TransportDisconnected(c)
    \/ \E item \in ItemPool : ItemsReceived(item)
    \/ \E id \in 1..(seed + GuessWindow) : ScoutSelected(id)
    \/ RunEffects

SpecRequests == Init /\ [][NextRequests]_vars

\* the type keys granted through unlockType
StoreTypes == {"Bug"}

\* the creature the store mutations are applied to
StoreIds == {seed + 1}

\* the behaviours of the store mutations: each may be applied to an
\* argument it was applied to before
NextStore ==
    \/ \E info \in ConnectionInfos : Connect(info)
    \/ LoginSucceed
    \/ \E id \in StoreIds : unlockPokemon(id)
    \/ \E id \in StoreIds, savedInfo \in ConnectionInfos : CheckCall(id, savedInfo)
    \/ \E typeName \in StoreTypes : unlockType(typeName)
    \/ \E id \in StoreIds : HintReceived(id)
    \/ RunEffects

SpecStore == Init /\ [][NextStore]_vars

\* the behaviours of connect(): called from the form or started by a
\* guess made while offline, its logins succeed or are rejected
NextConnect ==
    \/ \E info \in ConnectionInfos : Connect(info)
    \/ \E id \in StoreIds, savedInfo \in ConnectionInfos : CheckCall(id, savedInfo)
    \/ LoginSucceed
    \/ LoginFailRetry
    \/ \E authClass \in BOOLEAN : LoginFailFinal(authClass)
    \/ \E c \in Clients : TransportDisconnected(c)
    \/ Disconnect
    \/ RunEffects

SpecConnect == Init /\ [][NextConnect]_vars

\* the first render of GameProvider: the useState initialisers read the
\* persisted keys; if none throws, the page mounts and the save effects
\* write the five keys back
Mount ==
    /\ startup = "loading"
    /\ LET balls == LedgerInitial(localStorage["pokepelago_usedMasterBalls"])
           gears == LedgerInitial(localStorage["pokepelago_usedPokegears"])
           dexes == LedgerInitial(localStorage["pokepelago_usedPokedexes"])
           info == ConnectionInitial(localStorage["pokepelago_connection"])
           ui == UiInitial(localStorage["pokepelago_ui"])
       IN  IF balls.ok /\ gears.ok /\ dexes.ok /\ ui.ok
           THEN /\ startup' = "mounted"
                /\ usedMasterBalls' = balls.value
                /\ usedPokegears' = gears.value
                /\ usedPokedexes' = dexes.value
                /\ connectionInfo' = info
                /\ uiSettings' = ui.value
                /\ localStorage' = SavedStorage(localStorage, balls.value, gears.value,
                                                dexes.value, info, ui.value)
           ELSE /\ startup' = "failed"
                /\ UNCHANGED << usedMasterBalls, usedPokegears, usedPokedexes,
                                connectionInfo, uiSettings, localStorage >>
    /\ UNCHANGED << serverVersion, slotData, seed, packageCache, modeSwitches, serverVars, offsets,
                    connVars, gameMode, storeVars, isConnected, dirty, masterBalls,
                    ballsReceived, ledger, notifyPending, hintedIds, shinyIds, trapVars,
                    histVars, pingVars, autoVars, goalCount >>

\* connect(), step 1: the cached DataPackage is parsed and imported inside
\* try / catch
importCachedPackage ==
    /\ startup = "mounted"
    /\ packageCache = "unread"
    /\ LET item == localStorage["pokepelago_datapackage"]
       IN  packageCache' =
             IF item # NoItem /\ JSONParse(item).ok
             THEN "imported"
             ELSE "ignored"
    /\ UNCHANGED << serverVersion, slotData, seed, localStorage, startup, usedPokegears,
                    usedPokedexes, connectionInfo, uiSettings, modeSwitches, serverVars, offsets,
                    connVars, gameMode, storeVars, isConnected, dirty, sideVars, histVars,
                    pingVars, autoVars, goalCount >>

\* the page loads from any content of the persisted keys
NextStartup ==
    \/ Mount
    \/ importCachedPackage

SpecStartup == InitStartup /\ [][NextStartup]_vars

\* the behaviours of the Release Trap: the page connects, Release Traps
\* arrive, released creatures are guessed again, the storage callback runs,
\* the session ends and the next one replays the items
NextTraps ==
    \/ \E info \in HostInfos : Connect(info)
    \/ LoginSucceed
    \/ Disconnect
    \/ ItemsReceived(ServerReleaseItem)
    \/ \E id \in 1..WorldSize : reGuess(id)
    \/ StorageNotify("released")
    \/ RunEffects

SpecTraps == Init /\ [][NextTraps]_vars

\* a page in server mode that loads against a server of the new apworld
\* whose slot has no type locks
InitRelease ==
    Init /\ serverVersion = "new" /\ ~slotData.type_locks /\ gameMode = "archipelago"

\* one session with Release Traps: the page connects once, Release Traps and
\* a Pokegear arrive, released creatures are guessed again, the storage
\* callback runs
NextRelease ==
    \/ \E info \in HostInfos : Connect(info)
    \/ LoginSucceed
    \/ ItemsReceived(ServerReleaseItem)
    \/ ItemsReceived(ServerGearItem)
    \/ \E id \in 1..WorldSize : reGuess(id)
    \/ StorageNotify("released")
    \/ RunEffects

SpecRelease == InitRelease /\ [][NextRelease]_vars

\* the liveness probe (GameContext.tsx:1119-1125, 667-672)

\* the mutation of PingSends that probes whatever client the ref holds
PingSendsUnguarded == clientRef # 0

\* clientRef.current?.authenticated: the guard of the interval's callback
PingSends == Authenticated(clientRef)

\* the interval set by the login of client t fires
PingTick(t) ==
    /\ ~dirty
    /\ t \in intervals
    /\ bounces' = IF PingSends THEN bounces \cup {clientRef} ELSE bounces
    /\ UNCHANGED << envVars, serverVars, offsets, connVars, gameMode, storeVars, isConnected,
                    dirty, sideVars, snapshotIds, sentOnce, sentTwice, unsent,
                    connectionQuality, pingLatency, pingTimeoutRef, intervals >>
    /\ UNCHANGED << autoVars, goalCount >>
    /\ TrackOp("", IF PingSends THEN {Request("ping", 0, clientRef)} ELSE {})

\* the 'bounced' handler of client c: the server echoes its ping Bounce
Bounced(c) ==
    /\ ~dirty
    /\ c \in bounces
    /\ clients[c] = "authenticated"
    /\ bounces' = bounces \ {c}
    /\ pingLatency' = "measured"
    /\ connectionQuality' = "good"
    /\ UNCHANGED << envVars, serverVars, offsets, connVars, gameMode, storeVars, isConnected,
                    dirty, sideVars, snapshotIds, sentOnce, sentTwice, unsent,
                    pingTimeoutRef, intervals >>
    /\ UNCHANGED << autoVars, goalCount >>
    /\ Track

\* sessions with the probe: logins that succeed or are refused, transport
\* losses, disconnect(), interval ticks and the server's echoes
NextPing ==
    \/ \E info \in HostInfos : Connect(info)
    \/ LoginSucceed
    \/ \E authClass \in BOOLEAN : LoginFailFinal(authClass)
    \/ \E c \in Clients : TransportDisconnected(c)
    \/ Disconnect
    \/ \E t \in Clients : PingTick(t)
    \/ \E c \in Clients : Bounced(c)
    \/ RunEffects

SpecPing == Init /\ [][NextPing]_vars

\* the debug auto-complete (part_001:465-503)

\* the for loop of runAutoComplete does not skip creature id
Eligible(id) ==
    /\ ~(id \in checkedIds /\ id \notin releasedIds)
    /\ isPokemonGuessable(id).canGuess

\* the first creature after cursor the for loop stops at, or 0 if it runs
\* to the end of allPokemon
FirstEligible(cursor) ==
    LET rest == { id \in (cursor + 1)..WorldSize : Eligible(id) }
    IN  IF rest = {} THEN 0 ELSE CHOOSE id \in rest : \A other \in rest : id <= other

\* the mutation of Running that does not read the flag
RunningAlways == TRUE

\* (window as any).isAutoCompleting as the while and the for loop read it
Running == isAutoCompleting

\* setGuess(p.name) and the auto-submit effect it triggers (part_001:505-557)
IssueGuess(id, savedInfo) ==
    IF id \in releasedIds THEN recatch(id) ELSE submitGuess(id, savedInfo)

\* loop l runs from the point it is at to its next await: it stops at
\* creature id of the pass (id = 0: the pass ended without a guess)
RunLoop(l, id, savedInfo) ==
    IF id # 0
    THEN /\ loops' = [ loops EXCEPT ![l] = [ pc |-> "typing", cursor |-> id, stopped |-> FALSE ] ]
         /\ IssueGuess(id, savedInfo)
    ELSE /\ ~dirty
         /\ loops' = [ loops EXCEPT ![l] = [ pc |-> "idling", cursor |-> 0, stopped |-> FALSE ] ]
         /\ UNCHANGED << envVars, serverVars, offsets, connVars, gameMode, storeVars,
                         isConnected, dirty, sideVars, snapshotIds, sentOnce, sentTwice,
                         unsent, pingVars, goalCount >>
         /\ Track

\* window.runAutoComplete(): the flag is set and the first pass runs to its
\* first await
runAutoComplete(l, savedInfo) ==
    /\ loops[l].pc = "unused"
    /\ isAutoCompleting' = TRUE
    /\ RunLoop(l, FirstEligible(0), savedInfo)

\* window.stopAutoComplete()
stopAutoComplete ==
    /\ ~dirty
    /\ isAutoCompleting' = FALSE
    /\ loops' = [ l \in Loops |->
                    IF loops[l].pc \in {"typing", "idling"}
                    THEN [ loops[l] EXCEPT !.stopped = TRUE ]
                    ELSE loops[l] ]
    /\ UNCHANGED << envVars, serverVars, offsets, connVars, gameMode, storeVars, isConnected,
                    dirty, sideVars, snapshotIds, sentOnce, sentTwice, unsent, pingVars, goalCount >>
    /\ Track

\* the wait of loop l ends: the for loop goes on behind the cursor, or the
\* while loop starts the next pass, or the loop ends
LoopWake(l, savedInfo) ==
    /\ loops[l].pc \in {"typing", "idling"}
    /\ IF Running
       THEN /\ UNCHANGED isAutoCompleting
            /\ RunLoop(l,
                       IF loops[l].pc = "typing" /\ FirstEligible(loops[l].cursor) # 0
                       THEN FirstEligible(loops[l].cursor)
                       ELSE FirstEligible(0),
                       savedInfo)
       ELSE /\ ~dirty
            /\ isAutoCompleting' = FALSE
            /\ loops' = [ loops EXCEPT ![l] = [ @ EXCEPT !.pc = "done" ] ]
            /\ UNCHANGED << envVars, serverVars, offsets, connVars, gameMode, storeVars,
                            isConnected, dirty, sideVars, snapshotIds, sentOnce, sentTwice,
                            unsent, pingVars, goalCount >>
            /\ Track

\* a page with the debug panel: the auto-complete is started and stopped and
\* the waits of its loops end, in either game mode
NextAuto ==
    \/ \E l \in Loops, savedInfo \in HostInfos : runAutoComplete(l, savedInfo)
    \/ stopAutoComplete
    \/ \E l \in Loops, savedInfo \in HostInfos : LoopWake(l, savedInfo)
    \/ RunEffects

SpecAuto == Init /\ [][NextAuto]_vars

\* the Goal effect (GameContext.tsx:608-621)

\* the goal counts the slot may be generated with: one and two creatures
\* more than the server holds as checked when the behaviour starts
GoalCounts == { n + 1 : n \in SeedSizes } \cup { n + 2 : n \in SeedSizes }

\* the page has loaded; the slot's world holds all generations and a goal
InitGoal ==
    /\ serverVersion \in {"legacy", "new"}
    /\ slotData \in [ type_locks : {FALSE}, pokemon_generations : {8}, goal_count : GoalCounts ]
    /\ seed \in SeedSizes
    /\ gameMode = "archipelago"
    /\ InitSession
    /\ localStorage = SavedStorage([ k \in PersistedKeys |-> NoItem ], {}, {}, {},
                                   DefaultsObject, DefaultsObject)
    /\ startup = "mounted"
    /\ usedPokegears = {}
    /\ usedPokedexes = {}
    /\ connectionInfo = DefaultsObject
    /\ uiSettings = DefaultsObject
    /\ packageCache = "unread"
    /\ modeSwitches = 0

\* another client of the slot checks the location of creature id, as
\* src/test_run.js does; the page has no handler for the RoomUpdate packet
\* that tells it, so it learns of the check at its next login
RemoteCheck(id) ==
    /\ ~dirty
    /\ ServerOffsets.LOCATION_OFFSET + id \notin serverChecked
    /\ serverChecked' = serverChecked \cup {ServerOffsets.LOCATION_OFFSET + id}
    /\ UNCHANGED << envVars, serverItems, receivedOrder, offsets, connVars, gameMode,
                    storeVars, isConnected, dirty, sideVars, snapshotIds, sentOnce, sentTwice,
                    unsent >>
    /\ UNCHANGED << pingVars, autoVars, goalCount >>
    /\ Track

\* sessions of a slot with a goal: creatures are checked by another client,
\* the page connects, loses the transport, and its effects run
NextGoal ==
    \/ \E info \in HostInfos : Connect(info)
    \/ LoginSucceed
    \/ \E c \in Clients : TransportDisconnected(c)
    \/ \E id \in LateCreatures \cup GuessIds : RemoteCheck(id)
    \/ RunEffects

SpecGoal == InitGoal /\ [][NextGoal]_vars

\* the items of a first session: the creatures to guess, the Shiny Upgrade
\* and the Bug type key
ReplayItems == ItemPool \cup {SHINY_UPGRADE}

\* one session that starts with an empty received-items list: every item
\* reaches the page through the itemsReceived handler
NextReplay ==
    \/ \E info \in HostInfos : Connect(info)
    \/ LoginSucceed
    \/ \E item \in ReplayItems : ItemsReceived(item)
    \/ RunEffects

SpecReplay == Init /\ [][NextReplay]_vars

\* one session with both traps: the page connects, Derpy Mon Traps and a
\* Release Trap arrive, the storage callbacks run
NextUpload ==
    \/ \E info \in HostInfos : Connect(info)
    \/ LoginSucceed
    \/ ItemsReceived(ServerDerpItem)
    \/ ItemsReceived(ServerReleaseItem)
    \/ \E key \in {"derpyfied", "released"} : StorageNotify(key)
    \/ RunEffects

SpecUpload == Init /\ [][NextUpload]_vars

\* the behaviours of the Derpy Mon Trap: the page connects, by itself at
\* mount or from the form, the traps arrive, creature 13 may be unlocked,
\* the storage callback runs
NextDerp ==
    \/ \E info \in ConnectionInfos : AutoConnect(info)
    \/ \E info \in ConnectionInfos : Connect(info)
    \/ LoginSucceed
    \/ Disconnect
    \/ ItemsReceived(ServerDerpItem)
    \/ ItemsReceived(ITEM_OFFSET + seed + 1)
    \/ StorageNotify("derpyfied")
    \/ RunEffects

SpecDerp == Init /\ [][NextDerp]_vars

\* the player edits the connection form (host, port or slot name) while no
\* client is pending or authenticated: the next connect() reaches another
\* room, whose checked locations and received items are those of a freshly
\* generated slot
ChangeRoom ==
    /\ ~dirty
    /\ attempt = NoAttempt
    /\ \A c \in Clients : clients[c] \in {"unused", "closed"}
    /\ serverItems # {} \/ ballsReceived # 0 \/ releaseTraps # 0 \/ derpTraps # 0
    /\ serverChecked' = { ServerOffsets.LOCATION_OFFSET + i : i \in 1..seed }
    /\ serverItems' = {}
    /\ receivedOrder' = << >>
    /\ ballsReceived' = 0
    /\ ledger' = {}
    /\ notifyPending' = FALSE
    /\ releaseTraps' = 0
    /\ derpTraps' = 0
    /\ storedReleased' = {}
    /\ storedDerpyfied' = {}
    /\ trapNotify' = {}
    /\ releasedByTrap' = 0
    /\ lastUpload' = NoUpload
    /\ UNCHANGED << envVars, offsets, connVars, gameMode, storeVars, isConnected, dirty,
                    masterBalls, usedMasterBalls, hintedIds, shinyIds, releasedIds,
                    derpyfiedIds, staleClients,
                    snapshotIds, sentOnce, sentTwice, unsent >>
    /\ UNCHANGED << pingVars, autoVars, goalCount >>
    /\ Track

\* the items a room sends in the behaviours of SpecSessions: one creature
\* grant and the shiny upgrade
SessionItems == { ITEM_OFFSET + seed + 1, SHINY_UPGRADE }

\* the behaviours that span several sessions: items arrive, the session
\* ends, the player may point the form at another room and connects again
NextSessions ==
    \/ \E info \in ConnectionInfos : Connect(info)
    \/ LoginSucceed
    \/ Disconnect
    \/ \E c \in Clients : TransportDisconnected(c)
    \/ \E item \in SessionItems : ItemsReceived(item)
    \/ \E id \in StoreIds : unlockPokemon(id)
    \/ \E typeName \in StoreTypes : unlockType(typeName)
    \/ ChangeRoom
    \/ RunEffects

SpecSessions == Init /\ [][NextSessions]_vars

\* the creature ids the evaluator is asked about: Charizard (fire, flying),
\* an id of the first generation without metadata, Chikorita (second
\* generation) and an id of the second generation without metadata
EvalIds == {6, 16, 152, 153}

\* the type keys granted and revoked
EvalTypes == {"Fire", "Flying"}

\* the generation buttons toggled
EvalGens == {0, 1}

\* the creatures the server grants: Charizard, Chikorita and the id of the
\* second generation without metadata
EvalUnlocks == {6, 152, 153}

\* the evaluator reads no offset: one apworld version is enough
InitEval == Init /\ serverVersion = "new"

NextEval ==
    \/ \E info \in HostInfos : Connect(info)
    \/ LoginSucceed
    \/ \E mode \in GameModes : SetGameMode(mode)
    \/ \E id \in EvalUnlocks : unlockPokemon(id)
    \/ \E typeName \in EvalTypes : unlockType(typeName)
    \/ \E typeName \in EvalTypes : lockType(typeName)
    \/ \E index \in EvalGens : toggleGen(index)
    \/ RunEffects

SpecEval == InitEval /\ [][NextEval]_vars

-----------------------------------------------------------------------------
(* Properties *)

\* C1: while the client is authenticated, every location the server has
\* recorded as checked for the slot is in the local checked set
C1_LocalCoversServer ==
    Authenticated(clientRef) => DecodeChecked(offsets, serverChecked) \subseteq checkedIds

\* C2: when a reconnect started by checkPokemon succeeds, the location of
\* every id given to checkPokemon while unauthenticated has been sent
C2_PendingChecksReplayed ==
    [][(attempt.pendingId # 0 /\ attempt' = NoAttempt /\ isConnected') => unsent' = {}]_vars

\* C3: at most one connection attempt is in flight: never two clients
\* logging in at once, and an attempt is in flight exactly while
\* isConnectingRef is set
C3_OneAttemptInFlight ==
    /\ Cardinality({ c \in Clients : clients[c] = "pending" }) <= 1
    /\ isConnectingRef <=> attempt # NoAttempt
    /\ \A c \in Clients : clients[c] = "pending" => attempt.client = c

\* a checkPokemon reconnect was issued while the user's connect was in
\* flight, and only the one client of that connect exists
C3_Witness ==
    /\ isConnectingRef
    /\ attempt.pendingId = 0
    /\ unsent # {}
    /\ Cardinality(UnusedClients) = MaxClients - 1

\* the network ids of the milestone locations of the slot's world
MilestoneLocs ==
    { ServerOffsets.LOCATION_OFFSET + m :
        m \in GlobalMilestoneIds(ServerOffsets) \cup TypeMilestoneIds(ServerOffsets) }

\* the network ids of the starter locations of the slot's world
StarterLocs == { ServerOffsets.LOCATION_OFFSET + m : m \in StarterIds(ServerOffsets) }

\* the milestone pseudo-ids a step of the effects adds to checked
MilestonesEmitted ==
    IF dirty /\ ScanRuns THEN (checkedIds' \ checkedIds) \ StarterIds(offsets) ELSE {}

\* C4 as the spec states it: no milestone location is ever sent twice, and
\* a scan that runs although checked has not changed since the previous
\* scan emits nothing
C4_NoEmissionWithoutCheckedChange ==
    [][/\ sentTwice' \cap MilestoneLocs = {}
       /\ (dirty /\ ScanRuns /\ ~checkedChanged) => MilestonesEmitted = {}]_vars

\* C4: no milestone location is ever sent twice, and a scan that runs
\* although none of its inputs (checked, typeUnlocks, the type-lock
\* setting, the connection, the game mode) has changed since the previous
\* scan emits nothing
C4_NoEmissionWithoutInputChange ==
    [][/\ sentTwice' \cap MilestoneLocs = {}
       /\ (dirty /\ ScanRuns /\ ~inputsChanged) => MilestonesEmitted = {}]_vars

\* a scan is about to run again on unchanged inputs, after milestones
\* were emitted
C4_Witness ==
    /\ dirty
    /\ ScanRuns
    /\ ~inputsChanged
    /\ sentOnce \cap MilestoneLocs # {}

\* C5: connected in server mode with the effects flushed, a global
\* milestone is in checked and recorded by the server exactly when the
\* total less the three starters reaches its threshold or the snapshot
\* held it, and its location was not sent twice
C5_GlobalMilestonesAtQuiescence ==
    (isConnected /\ gameMode = "archipelago" /\ ~dirty) =>
        \A t \in globalMilestones :
            LET m == GlobalMilestoneId(offsets, t)
                loc == offsets.LOCATION_OFFSET + m
            IN  /\ (m \in checkedIds /\ loc \in serverChecked)
                      <=> ( Max(0, Cardinality(checkedIds \cap 1..WorldSize) - 3) >= t
                            \/ m \in snapshotIds )
                /\ loc \notin sentTwice

\* the total is 14 and threshold 10 was emitted in this behaviour
C5_Witness ==
    /\ isConnected
    /\ gameMode = "archipelago"
    /\ ~dirty
    /\ Cardinality(checkedIds \cap 1..WorldSize) = 14
    /\ offsets.LOCATION_OFFSET + GlobalMilestoneId(offsets, 10) \in sentOnce

\* C6: the total of the scan is the number of checked ids that are
\* creature ids
C6_TotalCountsCreatures ==
    TotalCatches(offsets, checkedIds) = Cardinality(checkedIds \cap 1..MAX_DEX)

\* C7: under the active table the creature ids, the starter ids, the
\* global milestone ids and the per-type milestone ids are pairwise
\* disjoint, and (type, step) to pseudo-id is injective
C7_IdSpacesDisjoint ==
    LET creatures == 1..MAX_DEX
        starters == StarterIds(offsets)
        globals == GlobalMilestoneIds(offsets)
        perType == TypeMilestoneIds(offsets)
        indices == 0..(Len(typesList) - 1)
    IN  /\ creatures \cap starters = {}
        /\ creatures \cap globals = {}
        /\ creatures \cap perType = {}
        /\ starters \cap globals = {}
        /\ starters \cap perType = {}
        /\ globals \cap perType = {}
        /\ \A i, j \in indices : \A s, t \in typeSteps :
              TypeMilestoneId(offsets, i, s) = TypeMilestoneId(offsets, j, t)
                  => (i = j /\ s = t)

\* the types of a creature, capitalised
CreatureTypes(id) ==
    IF HasMetadata(id)
    THEN { Capitalize(pokemonMetadata[id][i]) : i \in DOMAIN pokemonMetadata[id] }
    ELSE {}

\* checked creatures of a type
RawCount(typeName) ==
    Cardinality({ c \in checkedIds \cap 1..WorldSize : typeName \in CreatureTypes(c) })

\* the starters counted out of a type
StarterBaseline(typeName) == IF typeName \in {"Grass", "Poison", "Fire", "Water"} THEN 1 ELSE 0

\* C8: a scan emits and marks checked the per-type milestone (type, step)
\* exactly when the type is not locked (type-locking off or the key held),
\* the checked creatures of the type less the starter baseline reach the
\* step, and the milestone is not checked yet
C8_TypeMilestones ==
    [][(dirty /\ ScanRuns) =>
         \A index \in 0..(Len(typesList) - 1) : \A step \in typeSteps :
            LET m == TypeMilestoneId(offsets, index, step)
                typeName == typesList[index + 1]
            IN  (m \in checkedIds' \ checkedIds /\ offsets.LOCATION_OFFSET + m \in sentOnce')
                    <=> /\ ~(typeLocksEnabled /\ typeName \notin typeUnlocks)
                        /\ Max(0, RawCount(typeName) - StarterBaseline(typeName)) >= step
                        /\ m \notin checkedIds]_vars

\* type-locking is on, the Bug key arrived and Bug step 1 was emitted,
\* while Grass step 1 is withheld although two Grass creatures count
C8_Witness ==
    /\ isConnected
    /\ typeLocksEnabled
    /\ "Bug" \in typeUnlocks
    /\ offsets.LOCATION_OFFSET + TypeMilestoneId(offsets, 11, 1) \in sentOnce
    /\ RawCount("Grass") - StarterBaseline("Grass") >= 1
    /\ TypeMilestoneId(offsets, 3, 1) \notin checkedIds
    /\ ~dirty

\* C9: connected in server mode with the effects flushed, the 20 starter
\* ids are in checked; a starter the snapshot lists is not sent, and no
\* starter location is sent twice
C9_StartersAutoChecked ==
    [][/\ (isConnected' /\ gameMode' = "archipelago" /\ ~dirty')
            => StarterIds(offsets') \subseteq checkedIds'
       /\ (dirty /\ OakRuns)
            => ((checkedIds' \ checkedIds) \cap StarterIds(offsets)) \cap snapshotIds = {}
       /\ sentTwice' \cap StarterLocs = {}]_vars

\* a second session whose snapshot lists the starters the first one sent,
\* no creature having been guessed
C9_Witness ==
    /\ isConnected
    /\ gameMode = "archipelago"
    /\ ~dirty
    /\ StarterIds(offsets) \subseteq snapshotIds
    /\ StarterLocs \subseteq sentOnce
    /\ checkedIds \cap 1..WorldSize = 1..seed

\* what the evaluator answers for a creature that was never found
NeverFound == [ canGuess |-> FALSE, missingPokemon |-> TRUE, missingTypes |-> {} ]

\* C10 as the spec states it: in server mode every creature id that is
\* not unlocked is blocked as never found
C10_LockedIsNeverFound ==
    gameMode = "archipelago" =>
        \A id \in 1..WorldSize : id \notin unlockedIds => isPokemonGuessable(id) = NeverFound

\* C10: in server mode every creature id that has a metadata entry and is
\* not unlocked is blocked as never found, with no missing types reported
C10_LockedWithMetadataIsNeverFound ==
    gameMode = "archipelago" =>
        \A id \in 1..WorldSize :
            (HasMetadata(id) /\ id \notin unlockedIds) => isPokemonGuessable(id) = NeverFound

\* type-locking is on and a creature that is not unlocked lacks a type key
C10_Witness ==
    /\ gameMode = "archipelago"
    /\ isConnected
    /\ typeLocksEnabled
    /\ \E id \in 1..WorldSize :
          HasMetadata(id) /\ id \notin unlockedIds /\ MissingTypes(id, typeUnlocks) # {}

\* C11: in server mode with type-locking on, an unlocked creature can be
\* guessed exactly when every one of its types is in typeUnlocks; when it
\* cannot, the missing types reported are exactly its types that are not in
\* typeUnlocks
C11_MissingTypesExact ==
    (gameMode = "archipelago" /\ typeLocksEnabled) =>
        \A id \in EvalIds :
            id \in unlockedIds =>
                /\ isPokemonGuessable(id).canGuess <=> (CreatureTypes(id) \subseteq typeUnlocks)
                /\ ~isPokemonGuessable(id).canGuess =>
                      isPokemonGuessable(id).missingTypes = CreatureTypes(id) \ typeUnlocks

\* Charizard is unlocked and only the Fire key is held: Flying is missing
C11_Witness ==
    /\ gameMode = "archipelago"
    /\ typeLocksEnabled
    /\ 6 \in unlockedIds
    /\ typeUnlocks = {"Fire"}
    /\ isPokemonGuessable(6) =
          [ canGuess |-> FALSE, missingPokemon |-> FALSE, missingTypes |-> {"Flying"} ]

\* C12 as the spec states it: in standalone mode a creature can be guessed
\* exactly when its generation group is in the generation filter
C12_StandaloneIsGenerationFilter ==
    gameMode = "standalone" =>
        \A id \in EvalIds :
            isPokemonGuessable(id).canGuess <=> GenerationIndex(id) \in generationFilter

\* C12: in standalone mode a creature that has a metadata entry can be
\* guessed exactly when its generation group is in the generation filter,
\* whatever unlockedIds, typeUnlocks and typeLocksEnabled hold
C12_StandaloneWithMetadataIsGenerationFilter ==
    gameMode = "standalone" =>
        \A id \in EvalIds :
            HasMetadata(id) =>
                (isPokemonGuessable(id).canGuess <=> GenerationIndex(id) \in generationFilter)

\* standalone with type-locking on and no key held: Charizard, not
\* unlocked, can be guessed and Chikorita, unlocked, cannot
C12_Witness ==
    /\ gameMode = "standalone"
    /\ typeLocksEnabled
    /\ typeUnlocks = {}
    /\ generationFilter = {0}
    /\ 6 \notin unlockedIds
    /\ 152 \in unlockedIds
    /\ isPokemonGuessable(6).canGuess
    /\ ~isPokemonGuessable(152).canGuess

\* C13: the evaluator lets an id that has no metadata entry through, in
\* either mode
C13_NoMetadataFailsOpen ==
    \A id \in EvalIds :
        ~HasMetadata(id) =>
            isPokemonGuessable(id) =
                [ canGuess |-> TRUE, missingPokemon |-> FALSE, missingTypes |-> {} ]

\* an id without metadata is let through although it is not unlocked,
\* type-locking is on and its generation is filtered out
C13_Witness ==
    /\ typeLocksEnabled
    /\ typeUnlocks = {}
    /\ 153 \notin unlockedIds
    /\ GenerationIndex(153) \notin generationFilter
    /\ ~HasMetadata(153)
    /\ isPokemonGuessable(153).canGuess

\* C14: the Master Balls available are the Master Ball items received
\* less the creatures a Master Ball was used on, and never less than zero
C14_CountFollowsLedger ==
    masterBalls = Max(0, BallTotal(offsets, ballsReceived, serverItems)
                           - Cardinality(usedMasterBalls))

\* the three stored sets of the progression engine
StoredSets == << unlockedIds, checkedIds, typeUnlocks >>

\* C15: unlockPokemon(id), checkPokemon(id) and unlockType(typeName) applied
\* to an argument already in their set leave unlockedIds, checkedIds and
\* typeUnlocks as the first application left them
C15_Idempotent ==
    [][ /\ \A id \in StoreIds :
             (id \in unlockedIds /\ unlockPokemon(id)) => StoredSets' = StoredSets
        /\ \A id \in StoreIds, savedInfo \in ConnectionInfos :
             (id \in checkedIds /\ CheckCall(id, savedInfo)) => StoredSets' = StoredSets
        /\ \A typeName \in StoreTypes :
             (typeName \in typeUnlocks /\ unlockType(typeName)) => StoredSets' = StoredSets
      ]_vars

\* checkPokemon has just been applied to a creature that was checked
C15_Witness ==
    /\ reapplied = "check"
    /\ checkedIds \cap StoreIds # {}

\* the four sets a mutation applies to
MutatedSets == << unlockedIds, unlockedOrder, checkedIds, typeUnlocks, hintedIds >>

\* C16: a handler that re-applies a mutation already applied leaves the
\* four sets as they are, passes no request to the transport, starts no
\* connection attempt and queues no run of the effects (the Milestone
\* Deriver among them)
C16_ReapplyIsInert ==
    [][ reapplied' # "" =>
            /\ MutatedSets' = MutatedSets
            /\ lastSent' = {}
            /\ connVars' = connVars
            /\ ~dirty'
      ]_vars

\* the local ids of a table: creatures, starters, global and per-type
\* milestones
ValidLocalIds(o) ==
    (1..MAX_DEX) \cup StarterIds(o) \cup GlobalMilestoneIds(o) \cup TypeMilestoneIds(o)

\* C17: the 'connected' handler selects the new table exactly when a
\* location of the packet lies in the reserved band 8560000 .. 8569999,
\* else the legacy one; under the table selected every valid local id
\* survives the round trip through its location id, and every location of
\* the snapshot that is the location of a valid local id is decoded to it
C17_TableSelection ==
    [][ LoginSucceed =>
          /\ offsets' =
               IF ServerLocations \cap (NEW_BAND_LOW..(NEW_BAND_HIGH - 1)) # {}
               THEN NewOffsets
               ELSE LegacyOffsets
          /\ \A x \in ValidLocalIds(offsets') :
               /\ ToLocalId(offsets', ToLocationId(offsets', x)) = x
               /\ ToLocationId(offsets', x) \in serverChecked => x \in snapshotIds'
          /\ \A l \in serverChecked \cap ServerLocations :
               ToLocalId(offsets', l) \in snapshotIds'
      ]_vars

\* a login under the new table has decoded creatures, starters and a
\* global milestone from its snapshot
C17_Witness ==
    /\ isConnected
    /\ offsets = NewOffsets
    /\ serverVersion = "new"
    /\ snapshotIds \cap (1..WorldSize) # {}
    /\ StarterIds(offsets) \subseteq snapshotIds
    /\ snapshotIds \cap GlobalMilestoneIds(offsets) # {}

\* C18: the Offset Table changes at the authenticated transition only, and
\* every check request a handler passes to the transport is translated
\* with the table of the session it is sent in
C18_SessionTable ==
    [][ /\ offsets' # offsets => LoginSucceed
        /\ \A r \in lastSent' :
             r.kind = "check" => r.location = ToLocationId(offsets', r.id)
      ]_vars

\* C19: every network location id passed to the transport, in a check or
\* a scout request, is the active table's location base plus the local id
C19_RequestsUseActiveTable ==
    \A r \in lastSent : r.location = ToLocationId(offsets, r.id)

\* the four sets as the snapshot of the room yields them under table o:
\* the decoded checked locations, the creature grants, the first
\* shiny-upgrade-count creatures in the order received, and the type keys
SnapshotSets(o) ==
    [ checked  |-> DecodeChecked(o, serverChecked),
      unlocked |-> { i - ITEM_OFFSET : i \in { x \in serverItems : IsCreatureItem(x) } },
      shiny    |-> FirstUnlocked(receivedOrder,
                                 ReceivedCount(SHINY_UPGRADE, ballsReceived, serverItems)),
      types    |-> { TypeOfKey(o, i) : i \in { x \in serverItems : IsTypeKeyItem(o, x) } } ]

\* C20: on authenticated entry checked, unlocked, shiny and typeUnlocks
\* each become exactly the value derived from the snapshot, whatever they
\* held before
C20_SnapshotOverwrites ==
    [][ LoginSucceed =>
          /\ checkedIds' = SnapshotSets(offsets').checked
          /\ unlockedIds' = SnapshotSets(offsets').unlocked
          /\ shinyIds' = SnapshotSets(offsets').shiny
          /\ typeUnlocks' = SnapshotSets(offsets').types
      ]_vars

\* C21: after any disconnect, the user's disconnect() or the transport's
\* 'disconnected' event, the unlocked, checked and hinted sets are empty
C21_DisconnectClears ==
    [][ (Disconnect \/ \E c \in Clients : TransportDisconnected(c)) =>
          /\ unlockedIds' = {}
          /\ checkedIds' = {}
          /\ hintedIds' = {}
      ]_vars

DisplayedGuessedCount(checked, released) ==
    Cardinality({ id \in checked :
                    /\ id >= 1 /\ id <= MAX_DEX
                    /\ ~(FALSE /\ FALSE)
                    /\ FALSE
                    /\ id \notin released })

\* C23: a creature in released is not counted as caught: the total the
\* global milestones use, the goal count and the displayed count are those
\* of the checked ids without the released ones
C23_ReleasedNotCounted ==
    /\ TotalCatches(offsets, checkedIds) = TotalCatches(offsets, checkedIds \ releasedIds)
    /\ GoalGuessedCount(checkedIds) = GoalGuessedCount(checkedIds \ releasedIds)
    /\ DisplayedGuessedCount(checkedIds, releasedIds)
         = DisplayedGuessedCount(checkedIds \ releasedIds, {})

\* C24: guessing the name of a creature that is in released removes it
\* from released, leaves checked unchanged, passes no check request to the
\* transport and queues no run of the milestone effect
C24_ReGuessOnlyUnreleases ==
    [][ \A id \in 1..WorldSize :
          reGuess(id) =>
             /\ releasedIds' = releasedIds \ {id}
             /\ checkedIds' = checkedIds
             /\ lastSent' = {}
             /\ sentOnce' = sentOnce /\ sentTwice' = sentTwice /\ unsent' = unsent
             /\ serverChecked' = serverChecked
             /\ attempt' = attempt
             /\ ~dirty'
      ]_vars

\* a creature the Release Trap had taken has been guessed again: it is
\* checked and no longer released
C24_Witness ==
    /\ releasedByTrap > 0
    /\ releasedIds = {}
    /\ checkedIds \cap storedReleased \cap (1..WorldSize) # {}
    /\ ~dirty

\* C25: the number of ids the Release Trap processing has moved into
\* released never exceeds the number of Release Trap items received
C25_ReleasesBoundedByTraps == releasedByTrap <= releaseTraps

\* C26: every id the Release Trap processing moves into released is a
\* checked creature id, not a starter-range or milestone id, was not in
\* released, and is none of 1, 4, 7
C26_ReleasedAreCheckedCreatures ==
    [][ \A id \in releasedIds' \ releasedIds :
          (ItemsReceived(ServerReleaseItem) \/ LoginSucceed) =>
             /\ id \in checkedIds'
             /\ id \in 1..MAX_DEX
             /\ id \notin StarterIds(offsets') \cup GlobalMilestoneIds(offsets')
                            \cup TypeMilestoneIds(offsets')
             /\ id \notin {1, 4, 7}
      ]_vars

\* C27: while connected, shiny is the first min(N, |unlocked|) ids of
\* unlocked in unlock order, N the number of shiny upgrades received
C27_ShinyIsFirstUnlocked ==
    isConnected =>
        shinyIds = FirstUnlocked(unlockedOrder,
                                 ReceivedCount(SHINY_UPGRADE, ballsReceived, serverItems))

\* C28: in server mode, when a reconnect succeeds every id that had entered
\* checked other than from the snapshot has had the check of its location
\* passed to the server, at once or by the replay of that reconnect
C28_LocalChecksRequested ==
    [][ (gameMode = "archipelago" /\ attempt # NoAttempt /\ attempt' = NoAttempt
           /\ isConnected')
          => \A id \in checkedIds \ snapshotIds : id \notin unsent'
      ]_vars

\* C29: startup never fails: whatever text the persisted keys hold, no
\* initialiser lets an error out and the page mounts
C29_StartupNeverFails == startup # "failed"

\* C30: a processing of the Derpy Mon Traps adds exactly min(delta, |pool|)
\* ids to derpyfied, all from the pool and none removed, where delta is the
\* traps received minus |derpyfied| and the pool is the creatures with a
\* derpemon asset that are not derpyfied; with delta <= 0 nothing changes
C30_DerpAddsMinDeltaPool ==
    [][ (ItemsReceived(ServerDerpItem) \/ (LoginSucceed /\ derpTraps > 0)) =>
          LET delta == derpTraps' - Cardinality(derpyfiedIds)
              pool == (DerpAssets \cap (1..WorldSize)) \ derpyfiedIds
              added == derpyfiedIds' \ derpyfiedIds
          IN  /\ derpyfiedIds \subseteq derpyfiedIds'
              /\ added \subseteq pool
              /\ Cardinality(added) =
                   IF delta <= 0 THEN 0
                   ELSE IF delta <= Cardinality(pool) THEN delta
                   ELSE Cardinality(pool)
      ]_vars

C32_PullReconcilesLedger ==
    [][ /\ LoginSucceed => ledger' = ledger \cup (usedMasterBalls \ ledger)
        /\ (LoginSucceed \/ LedgerNotify) =>
             (~notifyPending' => ledger' \subseteq usedMasterBalls')
      ]_vars

\* C33: while authenticated, an interval that elapses with the previous probe
\* still unanswered makes the connection quality "degraded", and a reply
\* makes it "good"
C33_MissedReplyDegrades ==
    [][ /\ ((\E t \in Clients : PingTick(t)) /\ Authenticated(clientRef) /\ clientRef \in bounces)
           => connectionQuality' = "degraded"
        /\ (\E c \in Clients : Bounced(c)) => connectionQuality' = "good"
      ]_vars

\* C34: a transport 'disconnected' event sets the quality to "dead", clears
\* the latency and leaves no interval running; at most one interval runs at
\* any time; a ping is sent only to an authenticated client
C34_ProbeStopsOnDisconnect ==
    [][ /\ (\E c \in Clients : TransportDisconnected(c)) =>
             /\ connectionQuality' = "dead"
             /\ pingLatency' = "none"
             /\ intervals' = {}
             /\ pingTimeoutRef' = 0
        /\ Cardinality(intervals') <= 1
        /\ \A r \in lastSent' : r.kind = "ping" => Authenticated(r.id) /\ r.id = clientRef
        /\ bounces' \ bounces # {} => \E r \in lastSent' : r.kind = "ping"
      ]_vars

\* the transport of a session was lost: its handler has run, no interval is
\* left, and a probe of another session is still unanswered
C34_Witness ==
    /\ connectionQuality = "dead"
    /\ pingLatency = "none"
    /\ intervals = {}
    /\ \E c \in Clients : clients[c] = "closed"
    /\ bounces # {}

\* C35 as stated: a loop that was waiting when stopAutoComplete() was called
\* issues no guess when its wait ends and is done
C35_StoppedLoopEnds ==
    [][ \A l \in Loops :
          ((\E savedInfo \in HostInfos : LoopWake(l, savedInfo)) /\ loops[l].stopped) =>
             /\ loops'[l].pc = "done"
             /\ checkedIds' = checkedIds
             /\ releasedIds' = releasedIds
      ]_vars

\* C35, amended: a loop whose wait ends while the flag is cleared issues no
\* guess and is done, whatever is eligible
C35_LoopEndsOnClearedFlag ==
    [][ \A l \in Loops :
          ((\E savedInfo \in HostInfos : LoopWake(l, savedInfo)) /\ ~isAutoCompleting) =>
             /\ loops'[l].pc = "done"
             /\ ~isAutoCompleting'
             /\ checkedIds' = checkedIds
             /\ releasedIds' = releasedIds
             /\ lastSent' = {}
      ]_vars

\* a loop has ended after a stop although a creature was eligible
C35_Witness ==
    \E l \in Loops :
        /\ loops[l].pc = "done"
        /\ loops[l].stopped
        /\ ~isAutoCompleting
        /\ \E id \in 1..WorldSize : Eligible(id)

\* C36: a released creature that was re-guessed (its id is still in the
\* stored list, no longer in released) enters released again only by a trap
\* processing that selects it, not by a storage notification or the pull
C36_ReGuessedStaysOut ==
    [][ \A id \in storedReleased \ releasedIds :
          id \in releasedIds' =>
             /\ ItemsReceived(ServerReleaseItem) \/ LoginSucceed
             /\ id \in lastUpload'.released
      ]_vars

\* C37: a run of the Goal effect while connected in server mode with a
\* goal count sends the goal status exactly if the checked creature ids
\* (1..1025 without the starter and milestone ids of the active table)
\* number at least goalCount
C37_GoalSentIffCountReached ==
    [][ (RunEffects /\ GoalRuns) =>
          LET pseudoIds == StarterIds(offsets) \cup GlobalMilestoneIds(offsets)
                             \cup TypeMilestoneIds(offsets)
              creatures == { id \in checkedIds : id \in 1..MAX_DEX /\ id \notin pseudoIds }
          IN  (Request("status", CLIENT_GOAL, 0) \in lastSent')
                 <=> (Cardinality(creatures) >= goalCount)
      ]_vars

\* C38: in a first session, whose items were all processed one at a time
\* from the empty state, unlocked, typeUnlocks and shiny are the sets the
\* 'connected' handler would rebuild from the same received-items list
C38_LiveEqualsRebuild ==
    (clients[1] = "authenticated" /\ clients[2] = "unused") =>
        /\ unlockedIds = { i - ITEM_OFFSET : i \in { x \in serverItems : IsCreatureItem(x) } }
        /\ typeUnlocks =
             { TypeOfKey(offsets, i) : i \in { x \in serverItems : IsTypeKeyItem(offsets, x) } }
        /\ shinyIds =
             FirstUnlocked(receivedOrder, ReceivedCount(SHINY_UPGRADE, ballsReceived, serverItems))

C40_OneLiveSession ==
    (isConnected /\ attempt = NoAttempt) =>
        { c \in Clients : clients[c] = "authenticated" } = {clientRef}

====
